---- MODULE Spec2Model ----
(***************************************************************************)
(* A model of elmo::Elmo (src/src/elmo_ethercat_sdk/Elmo.cpp): the CiA 402 *)
(* transition lookup, the blocking (SDO) configuration path, the cyclic    *)
(* (PDO) read/write path with its non-blocking state-change engine, and    *)
(* the locks the two callers (cyclic thread, application thread) take.     *)
(***************************************************************************)
EXTENDS Integers, Sequences, FiniteSets, TLC

\* ------------------------------------------------------------ vocabulary

\* The six CiA 402 states the switch statements of Elmo.cpp name.
DriveStates6 ==
  {"SwitchOnDisabled", "ReadyToSwitchOn", "SwitchedOn",
   "OperationEnabled", "QuickStopActive", "Fault"}

\* "NA" stands for every other value of DriveState (NotReadyToSwitchOn,
\* FaultReactionActive, NA): all of them take the default: branches.
DriveStates == DriveStates6 \cup {"NA"}

\* The transitions Elmo.cpp issues (StateTransition::_2 .. ::_15).
Transitions == {2, 3, 4, 5, 6, 7, 8, 9, 10, 11, 12, 15}

\* A Controlword value is identified by the setter that produced it:
\* 0 for setAllFalse(), n for setStateTransition<n>().
setAllFalse == 0

setStateTransition(n) == n

\* CiA 402: the state a transition leaves and the state it nominally enters.
TransitionSource(n) ==
  CASE n = 2 -> "SwitchOnDisabled"
    [] n = 3 -> "ReadyToSwitchOn"
    [] n = 4 -> "SwitchedOn"
    [] n = 5 -> "OperationEnabled"
    [] n = 6 -> "SwitchedOn"
    [] n = 7 -> "ReadyToSwitchOn"
    [] n = 8 -> "OperationEnabled"
    [] n = 9 -> "OperationEnabled"
    [] n = 10 -> "SwitchedOn"
    [] n = 11 -> "OperationEnabled"
    [] n = 12 -> "QuickStopActive"
    [] n = 15 -> "Fault"
    [] OTHER -> "NA"

TransitionDest(n) ==
  CASE n = 2 -> "ReadyToSwitchOn"
    [] n = 3 -> "SwitchedOn"
    [] n = 4 -> "OperationEnabled"
    [] n = 5 -> "SwitchedOn"
    [] n = 6 -> "ReadyToSwitchOn"
    [] n = 7 -> "SwitchOnDisabled"
    [] n = 8 -> "ReadyToSwitchOn"
    [] n = 9 -> "SwitchOnDisabled"
    [] n = 10 -> "SwitchOnDisabled"
    [] n = 11 -> "QuickStopActive"
    [] n = 12 -> "SwitchOnDisabled"
    [] n = 15 -> "SwitchOnDisabled"
    [] OTHER -> "NA"

ErrorTypes ==
  {"ModeOfOperationError", "RxPdoTypeError", "TxPdoTypeError",
   "PdoMappingError", "TxPdoMappingError", "SdoStateTransitionError",
   "PdoStateTransitionError", "ConfigurationError", "ErrorReadingError"}

\* ------------------------------------------------------------ state

\* RxPdoTypeEnum / TxPdoTypeEnum; "Other" is a value outside the named cases.
RxPdoTypes == {"NA", "RxPdoStandard", "RxPdoCST"}

TxPdoTypes == {"NA", "TxPdoStandard", "TxPdoCST"}

\* ModeOfOperationEnum: NA and one mode that is set.
ModesOfOperation == {"NA", "CyclicSynchronousTorqueMode"}

\* static_cast<int8_t>(mode): the CiA 402 mode numbers.
ModeRaw(mode) == IF mode = "CyclicSynchronousTorqueMode" THEN 10 ELSE 0

VARIABLES
  lastErrors,    \* the errors the operation under way / last run appended to reading_
  tblPc,         \* lookup harness: "call" before, "ret" after the lookup
  tblRequested,  \* lookup harness: requestedDriveState
  tblCurrent,    \* lookup harness: currentDriveState
  tblResult,     \* lookup harness: the Controlword returned
  configuration_,          \* Configuration (the fields Elmo.cpp reads)
  modeOfOperation_,
  allowModeChange_,
  currentRxPdoTypeEnum_,
  currentTxPdoTypeEnum_,
  pdoInfo_,                \* <<rxPdoSize_, txPdoSize_>>
  busLog,        \* the bus calls (mailbox, usleep) of the last blocking operation
  opName,        \* the blocking operation that ran last
  opArgs,        \* its arguments
  opReturn,      \* its return value
  opSteps,       \* runPreopConfiguration: the value each step returned
  preRx,         \* currentRxPdoTypeEnum_ when the last operation was entered
  preTx,         \* currentTxPdoTypeEnum_ when the last operation was entered
  mutexOwner,    \* mutex_: the thread owning it ("none", "cyc", "app")
  mutexCount,    \* mutex_: how many times its owner has locked it
  stagedCommandMutex_,  \* its owner
  readingMutex_,        \* its owner
  pcCyc,         \* cyclic thread: "idle", or "ur_mid" inside updateRead's decode
  pcApp,         \* application thread: its position in the operation it runs
  drive,         \* the drive: its CiA 402 state
  position,      \* the drive: its position, one of NumSamples values
  urPdo,         \* updateRead: the TxPdo record readTxPdo returned
  reading_,      \* [actualPosition, statusword (decoded), statusSample]
  lastFaults,    \* the fault entries the last updateRead appended to reading_
  controlword_,
  rxPdo,         \* the bus: the last RxPdo record written
  stagedCommand_,
  conductStateChange_,
  hasRead_,
  stateChangeSuccessful_,
  targetDriveState_,
  numberOfSuccessfulTargetStateReadings_,
  sinceChange,   \* steady_clock::now() - driveStateChangeTimePoint_, saturating
  sinceStart,    \* steady_clock::now() - driveStateChangeStartTimePoint, saturating
  waitForState,  \* setDriveStateViaPdo: its argument
  appRet,        \* application thread: the value the last operation returned
  snapshot,      \* getReading: the copy being made / returned
  issued,        \* the controlwords the engine assigned since the last request
  seen,          \* the drive states the engine evaluated since the last request
  scenarioA,     \* the last request asked OperationEnabled of a drive at rest in SwitchOnDisabled
  runLength,     \* consecutive evaluations equal to the target since the last request
  successRun,    \* runLength when the engine marked the request successful
  wrote,         \* the last updateWrite handed a record to the bus
  sdoReads,      \* the mailbox reads the last updateRead made
  steady,        \* the updateWrite calls, up to two, that wrote a record since the last
                 \* stageCommand step
  fresh,         \* a record was decoded into reading_ since the last evaluation / request
  evaluatedFresh \* the engine's last evaluation had such a record

tblVars == <<tblPc, tblRequested, tblCurrent, tblResult>>

cfgVars ==
  <<configuration_, modeOfOperation_, allowModeChange_, currentRxPdoTypeEnum_,
    currentTxPdoTypeEnum_, pdoInfo_>>

opVars ==
  <<busLog, opName, opArgs, opReturn, opSteps, preRx, preTx>>

lockVars == <<mutexOwner, mutexCount, stagedCommandMutex_, readingMutex_>>

pcVars == <<pcCyc, pcApp>>

busVars == <<drive, position, urPdo, rxPdo>>

readVars == <<reading_, lastFaults>>

changeVars ==
  <<controlword_, conductStateChange_, hasRead_, stateChangeSuccessful_,
    targetDriveState_, numberOfSuccessfulTargetStateReadings_>>

timeVars == <<sinceChange, sinceStart>>

appVars == <<waitForState, appRet, snapshot, stagedCommand_>>

obsVars == <<issued, seen, scenarioA, runLength, successRun>>

traceVars == <<wrote, sdoReads, steady, fresh, evaluatedFresh>>

cycVars ==
  <<lockVars, pcVars, busVars, readVars, changeVars, timeVars, appVars, obsVars,
    traceVars>>

vars == <<lastErrors, tblVars, cfgVars, opVars, cycVars>>

\* ------------------------------------------------------------ transition lookup

\* A lookup result: the Controlword returned and the errors added to reading_.
Selected(n) == [controlword |-> setStateTransition(n), errors |-> <<>>]

NotSelected_silent == [controlword |-> setAllFalse, errors |-> <<>>]

NotSelected ==
  [controlword |-> setAllFalse, errors |-> <<"PdoStateTransitionError">>]

\* The nested switch of the lookup, by (requested, current).
TransitionTable(requested, current) ==
  CASE requested = "SwitchOnDisabled" ->
         (CASE current = "SwitchOnDisabled" -> NotSelected
            [] current = "ReadyToSwitchOn" -> Selected(7)
            [] current = "SwitchedOn" -> Selected(10)
            [] current = "OperationEnabled" -> Selected(9)
            [] current = "QuickStopActive" -> Selected(12)
            [] current = "Fault" -> Selected(15)
            [] OTHER -> NotSelected)
    [] requested = "ReadyToSwitchOn" ->
         (CASE current = "SwitchOnDisabled" -> Selected(2)
            [] current = "ReadyToSwitchOn" -> NotSelected
            [] current = "SwitchedOn" -> Selected(6)
            [] current = "OperationEnabled" -> Selected(8)
            [] current = "QuickStopActive" -> Selected(12)
            [] current = "Fault" -> Selected(15)
            [] OTHER -> NotSelected)
    [] requested = "SwitchedOn" ->
         (CASE current = "SwitchOnDisabled" -> Selected(2)
            [] current = "ReadyToSwitchOn" -> Selected(3)
            [] current = "SwitchedOn" -> NotSelected
            [] current = "OperationEnabled" -> Selected(5)
            [] current = "QuickStopActive" -> Selected(12)
            [] current = "Fault" -> Selected(15)
            [] OTHER -> NotSelected)
    [] requested = "OperationEnabled" ->
         (CASE current = "SwitchOnDisabled" -> Selected(2)
            [] current = "ReadyToSwitchOn" -> Selected(3)
            [] current = "SwitchedOn" -> Selected(4)
            [] current = "OperationEnabled" -> NotSelected
            [] current = "QuickStopActive" -> Selected(12)
            [] current = "Fault" -> Selected(15)
            [] OTHER -> NotSelected)
    [] requested = "QuickStopActive" ->
         (CASE current = "SwitchOnDisabled" -> Selected(2)
            [] current = "ReadyToSwitchOn" -> Selected(3)
            [] current = "SwitchedOn" -> Selected(4)
            [] current = "OperationEnabled" -> Selected(11)
            [] current = "QuickStopActive" -> NotSelected
            [] current = "Fault" -> Selected(15)
            [] OTHER -> NotSelected)
    [] OTHER -> NotSelected

getNextStateTransitionControlword_swapped(requested, current) ==
  TransitionTable(current, requested)

getNextStateTransitionControlword_sticky(requested, current) ==
  IF tblResult \in Transitions THEN Selected(tblResult) ELSE TransitionTable(requested, current)

getNextStateTransitionControlword(requested, current) ==
  TransitionTable(requested, current)

\* ------------------------------------------------------------ bounds

\* At most this many mailbox calls of one blocking operation fail.
MaxSdoFailures == 1

\* The longest mailbox call sequence of one operation (runPreopConfiguration).
MaxSdoCalls == 22

\* configuration_.configRunSdoVerifyTimeout, in microseconds.
ConfigRunSdoVerifyTimeout == 1

\* configuration_.minNumberOfSuccessfulTargetStateReadings
minNumberOfSuccessfulTargetStateReadings == 2

\* configuration_.driveStateChangeMinTimeout, in clock ticks.
driveStateChangeMinTimeout == 1

\* configuration_.driveStateChangeMaxTimeout, in clock ticks.
driveStateChangeMaxTimeout == 2

\* The bus delivers this many distinguishable telemetry samples.
NumSamples == 2

\* The application stages target torques 1 .. MaxTorque.
MaxTorque == 2

\* ------------------------------------------------------------ blocking (SDO) path

\* The Configuration records loadConfiguration is given. Currents are held in
\* mA: static_cast<double>(x) / 1000.0 and round(1000.0 * a) are exact on them.
Configurations ==
  [rxPdoTypeEnum : RxPdoTypes,
   txPdoTypeEnum : TxPdoTypes,
   modeOfOperationEnum : ModesOfOperation,
   useMultipleModeOfOperations : {FALSE},
   motorRatedCurrentA : {0, 2000},
   maxCurrentA : {3000}]

\* The answers the bus gives one operation: the set of its mailbox calls
\* (numbered from 1) that fail.
RECURSIVE FailSetsOf(_)
FailSetsOf(k) ==
  IF k = 0
  THEN {{}}
  ELSE LET fewer == FailSetsOf(k - 1)
       IN fewer \cup {f \cup {i} : f \in fewer, i \in 1 .. MaxSdoCalls}

FailSets == FailSetsOf(MaxSdoFailures)

\* The running operation: its bus calls so far, the errors it added to
\* reading_, the value the last callee returned, the negotiated PDO types.
Machine(rx, tx) ==
  [log |-> <<>>, calls |-> 0, errors |-> <<>>, ret |-> TRUE,
   rx |-> rx, tx |-> tx, steps |-> <<>>, rated |-> 0]

\* One mailbox call (sendSdoRead, sendSdoWrite, sdoVerifyWrite) and its result.
Mailbox(m, fails, kind, index, sub, value) ==
  LET ok == (m.calls + 1) \notin fails
  IN [m EXCEPT !.calls = @ + 1,
               !.log = Append(@, [kind |-> kind, index |-> index, sub |-> sub,
                                  value |-> value, ok |-> ok]),
               !.ret = ok]

usleep(m, t) ==
  [m EXCEPT !.log = Append(@, [kind |-> "usleep", index |-> "", sub |-> 0,
                               value |-> t, ok |-> TRUE])]

addErrorToReading(m, errorType) == [m EXCEPT !.errors = Append(@, errorType)]

Failed(m, errorType) == [addErrorToReading(m, errorType) EXCEPT !.ret = FALSE]

getStatuswordViaSdo(m, fails) ==
  Mailbox(m, fails, "sendSdoRead", "STATUSWORD", 0, 0)

setControlwordViaSdo(m, fails, controlword) ==
  Mailbox(m, fails, "sendSdoWrite", "CONTROLWORD", 0, controlword)

stateTransitionViaSdo(m, fails, stateTransition) ==
  IF stateTransition \in Transitions
  THEN setControlwordViaSdo(m, fails, setStateTransition(stateTransition))
  ELSE Failed(m, "SdoStateTransitionError")

\* The transitions setDriveStateViaSdo issues for (driveState, currentDriveState);
\* implemented is FALSE in the default: branches.
Chain(c) == [implemented |-> TRUE, chain |-> c]

NoChain == [implemented |-> FALSE, chain |-> <<>>]

SdoChain_singleStep(driveState, currentDriveState) ==
  IF driveState \in DriveStates6 \ {"Fault"} /\ currentDriveState \in DriveStates6
  THEN Chain(IF driveState = currentDriveState
             THEN <<>>
             ELSE <<TransitionTable(driveState, currentDriveState).controlword>>)
  ELSE NoChain

SdoChain(driveState, currentDriveState) ==
  CASE driveState = "SwitchOnDisabled" ->
         (CASE currentDriveState = "SwitchOnDisabled" -> Chain(<<>>)
            [] currentDriveState = "ReadyToSwitchOn" -> Chain(<<7>>)
            [] currentDriveState = "SwitchedOn" -> Chain(<<10>>)
            [] currentDriveState = "OperationEnabled" -> Chain(<<9>>)
            [] currentDriveState = "QuickStopActive" -> Chain(<<12>>)
            [] currentDriveState = "Fault" -> Chain(<<15>>)
            [] OTHER -> NoChain)
    [] driveState = "ReadyToSwitchOn" ->
         (CASE currentDriveState = "SwitchOnDisabled" -> Chain(<<2>>)
            [] currentDriveState = "ReadyToSwitchOn" -> Chain(<<>>)
            [] currentDriveState = "SwitchedOn" -> Chain(<<6>>)
            [] currentDriveState = "OperationEnabled" -> Chain(<<8>>)
            [] currentDriveState = "QuickStopActive" -> Chain(<<12, 2>>)
            [] currentDriveState = "Fault" -> Chain(<<15, 2>>)
            [] OTHER -> NoChain)
    [] driveState = "SwitchedOn" ->
         (CASE currentDriveState = "SwitchOnDisabled" -> Chain(<<2, 3>>)
            [] currentDriveState = "ReadyToSwitchOn" -> Chain(<<3>>)
            [] currentDriveState = "SwitchedOn" -> Chain(<<>>)
            [] currentDriveState = "OperationEnabled" -> Chain(<<5>>)
            [] currentDriveState = "QuickStopActive" -> Chain(<<12, 2, 3>>)
            [] currentDriveState = "Fault" -> Chain(<<15, 2, 3>>)
            [] OTHER -> NoChain)
    [] driveState = "OperationEnabled" ->
         (CASE currentDriveState = "SwitchOnDisabled" -> Chain(<<2, 3, 4>>)
            [] currentDriveState = "ReadyToSwitchOn" -> Chain(<<3, 4>>)
            [] currentDriveState = "SwitchedOn" -> Chain(<<4>>)
            [] currentDriveState = "OperationEnabled" -> Chain(<<>>)
            [] currentDriveState = "QuickStopActive" -> Chain(<<12, 2, 3, 4>>)
            [] currentDriveState = "Fault" -> Chain(<<15, 2, 3, 4>>)
            [] OTHER -> NoChain)
    [] driveState = "QuickStopActive" ->
         (CASE currentDriveState = "SwitchOnDisabled" -> Chain(<<2, 3, 4, 11>>)
            [] currentDriveState = "ReadyToSwitchOn" -> Chain(<<3, 4, 11>>)
            [] currentDriveState = "SwitchedOn" -> Chain(<<4, 11>>)
            [] currentDriveState = "OperationEnabled" -> Chain(<<11>>)
            [] currentDriveState = "QuickStopActive" -> Chain(<<>>)
            [] currentDriveState = "Fault" -> Chain(<<15, 2, 3, 4, 11>>)
            [] OTHER -> NoChain)
    [] OTHER -> NoChain

\* success &= stateTransitionViaSdo(..) for each transition of a chain: the
\* right-hand side is evaluated whatever `success` holds.
RECURSIVE IssueChain(_, _, _, _)
IssueChain(m, fails, chain, success) ==
  IF chain = <<>>
  THEN [m EXCEPT !.ret = success]
  ELSE LET m1 == stateTransitionViaSdo(m, fails, Head(chain))
       IN IssueChain(m1, fails, Tail(chain), success /\ m1.ret)

\* currentDriveState is what the statusword read over SDO decodes to.
setDriveStateViaSdo(m, fails, driveState, currentDriveState) ==
  LET m1 == getStatuswordViaSdo(m, fails)
      c == SdoChain(driveState, currentDriveState)
  IN IF c.implemented
     THEN IssueChain(m1, fails, c.chain, m1.ret)
     ELSE Failed(m1, "SdoStateTransitionError")

\* --- PDO mapping

W(index, sub, value) ==
  [kind |-> "sdoVerifyWrite", index |-> index, sub |-> sub, value |-> value]

S == [kind |-> "usleep", index |-> "", sub |-> 0, value |-> 0]

\* The statements of a supported case of mapPdos, in order (values in decimal:
\* 0x1605 = 5637, 0x1618 = 5656, 0x1602 = 5634, 0x160b = 5643).
RxScript(rxPdoTypeEnum) ==
  IF rxPdoTypeEnum = "RxPdoStandard"
  THEN <<S, W("RX_PDO_ASSIGNMENT", 0, 0), S, W("RX_PDO_ASSIGNMENT", 1, 5637),
         S, W("RX_PDO_ASSIGNMENT", 2, 5656), S, W("RX_PDO_ASSIGNMENT", 0, 2), S>>
  ELSE <<S, W("RX_PDO_ASSIGNMENT", 0, 0), S, W("RX_PDO_ASSIGNMENT", 1, 5634),
         S, W("RX_PDO_ASSIGNMENT", 2, 5643), W("RX_PDO_ASSIGNMENT", 0, 2), S>>

\* 0x1a03 = 6659, 0x1a1d = 6685, 0x1a1f = 6687, 0x1a18 = 6680, 0x1a02 = 6658,
\* 0x1a11 = 6673.
TxScript_countFirst(txPdoTypeEnum) ==
  IF txPdoTypeEnum = "TxPdoStandard"
  THEN <<W("TX_PDO_ASSIGNMENT", 0, 0), S, W("TX_PDO_ASSIGNMENT", 0, 4), S,
         W("TX_PDO_ASSIGNMENT", 1, 6659), S, W("TX_PDO_ASSIGNMENT", 2, 6685), S,
         W("TX_PDO_ASSIGNMENT", 3, 6687), S, W("TX_PDO_ASSIGNMENT", 4, 6680), S>>
  ELSE <<W("TX_PDO_ASSIGNMENT", 0, 0), S, W("TX_PDO_ASSIGNMENT", 0, 2), S,
         W("TX_PDO_ASSIGNMENT", 1, 6658), S, W("TX_PDO_ASSIGNMENT", 2, 6673), S>>

TxScript(txPdoTypeEnum) ==
  IF txPdoTypeEnum = "TxPdoStandard"
  THEN <<W("TX_PDO_ASSIGNMENT", 0, 0), S, W("TX_PDO_ASSIGNMENT", 1, 6659), S,
         W("TX_PDO_ASSIGNMENT", 2, 6685), S, W("TX_PDO_ASSIGNMENT", 3, 6687), S,
         W("TX_PDO_ASSIGNMENT", 4, 6680), S, W("TX_PDO_ASSIGNMENT", 0, 4), S>>
  ELSE <<W("TX_PDO_ASSIGNMENT", 0, 0), S, W("TX_PDO_ASSIGNMENT", 1, 6658), S,
         W("TX_PDO_ASSIGNMENT", 2, 6673), S, W("TX_PDO_ASSIGNMENT", 0, 2), S>>

\* success &= sdoVerifyWrite(..) and usleep(..), statement by statement.
RECURSIVE RunScript(_, _, _, _)
RunScript(m, fails, script, success) ==
  IF script = <<>>
  THEN [m EXCEPT !.ret = success]
  ELSE LET s == Head(script)
       IN IF s.kind = "usleep"
          THEN RunScript(usleep(m, ConfigRunSdoVerifyTimeout), fails,
                         Tail(script), success)
          ELSE LET m1 == Mailbox(m, fails, s.kind, s.index, s.sub, s.value)
               IN RunScript(m1, fails, Tail(script), success /\ m1.ret)

mapRxPdo_defaultAsCst(m, fails, rxPdoTypeEnum) ==
  RunScript(m, fails, RxScript(rxPdoTypeEnum), TRUE)

\* switch (rxPdoTypeEnum) of mapPdos; .ret is rxSuccess.
mapRxPdo(m, fails, rxPdoTypeEnum) ==
  IF rxPdoTypeEnum \in {"RxPdoStandard", "RxPdoCST"}
  THEN RunScript(m, fails, RxScript(rxPdoTypeEnum), TRUE)
  ELSE Failed(m, "PdoMappingError")

\* switch (txPdoTypeEnum) of mapPdos; .ret is txSuccess.
mapTxPdo(m, fails, txPdoTypeEnum) ==
  IF txPdoTypeEnum \in {"TxPdoStandard", "TxPdoCST"}
  THEN RunScript(m, fails, TxScript(txPdoTypeEnum), TRUE)
  ELSE Failed(m, "TxPdoMappingError")

configureRxPdo(m, rxPdoTypeEnum) ==
  IF rxPdoTypeEnum = "NA"
  THEN Failed(m, "RxPdoTypeError")
  ELSE [m EXCEPT !.rx = rxPdoTypeEnum, !.ret = TRUE]

\* The NA branch records RxPdoTypeError, as Elmo.cpp:671 does.
configureTxPdo(m, txPdoTypeEnum) ==
  IF txPdoTypeEnum = "NA"
  THEN Failed(m, "RxPdoTypeError")
  ELSE [m EXCEPT !.tx = txPdoTypeEnum, !.ret = TRUE]

mapPdos_alwaysConfigures(m, fails, rxPdoTypeEnum, txPdoTypeEnum) ==
  LET mRx == mapRxPdo(m, fails, rxPdoTypeEnum)
      mTx == mapTxPdo(mRx, fails, txPdoTypeEnum)
      cRx == configureRxPdo(mTx, rxPdoTypeEnum)
      rxSuccess == mRx.ret /\ cRx.ret
      cTx == configureTxPdo(cRx, txPdoTypeEnum)
      txSuccess == mTx.ret /\ cTx.ret
  IN [cTx EXCEPT !.ret = txSuccess /\ rxSuccess]

mapPdos(m, fails, rxPdoTypeEnum, txPdoTypeEnum) ==
  LET mRx == mapRxPdo(m, fails, rxPdoTypeEnum)
      mTx == mapTxPdo(mRx, fails, txPdoTypeEnum)
      cRx == IF mRx.ret THEN configureRxPdo(mTx, rxPdoTypeEnum) ELSE mTx
      rxSuccess == mRx.ret /\ cRx.ret
      cTx == IF mTx.ret THEN configureTxPdo(cRx, txPdoTypeEnum) ELSE cRx
      txSuccess == mTx.ret /\ cTx.ret
  IN [cTx EXCEPT !.ret = txSuccess /\ rxSuccess]

\* --- pre-operational configuration

Step_resultIgnored(m, name) ==
  [m EXCEPT !.steps = Append(@, [name |-> name, ok |-> TRUE])]

\* success &= <the step>: the value the step returned.
Step(m, name) == [m EXCEPT !.steps = Append(@, [name |-> name, ok |-> m.ret])]

runPreopConfiguration_modeFirst(m, fails, cfg, hw, currentDriveState) ==
  LET backfill == cfg.motorRatedCurrentA = 0
      m1 == IF backfill
            THEN Step(Mailbox(m, fails, "sendSdoRead", "MOTOR_RATED_CURRENT", 0, 0),
                      "readMotorRatedCurrent")
            ELSE m
      rated == IF backfill THEN hw ELSE cfg.motorRatedCurrentA
      m2 == Step(setDriveStateViaSdo(m1, fails, "ReadyToSwitchOn", currentDriveState),
                 "setDriveStateViaSdo")
      m3 == Step(Mailbox(m2, fails, "sdoVerifyWrite", "MODES_OF_OPERATION", 0,
                         ModeRaw(cfg.modeOfOperationEnum)),
                 "writeModeOfOperation")
      m4 == Step(mapPdos(m3, fails, cfg.rxPdoTypeEnum, cfg.txPdoTypeEnum), "mapPdos")
      m5 == [m4 EXCEPT !.log = Append(@, [kind |-> "getHardwarePdoSizes", index |-> "",
                                          sub |-> 0, value |-> 0, ok |-> TRUE])]
      m6 == Step(Mailbox(m5, fails, "sdoVerifyWrite", "MOTOR_RATED_CURRENT", 0, rated),
                 "writeMotorRatedCurrent")
      m7 == Step(Mailbox(m6, fails, "sdoVerifyWrite", "MOTOR_RATED_TORQUE", 0, rated),
                 "writeMotorRatedTorque")
      m8 == Step(Mailbox(m7, fails, "sdoVerifyWrite", "MAX_CURRENT", 0, cfg.maxCurrentA),
                 "writeMaxCurrent")
      success == \A i \in 1 .. Len(m8.steps) : m8.steps[i].ok
      m9 == IF ~success THEN addErrorToReading(m8, "ConfigurationError") ELSE m8
  IN [m9 EXCEPT !.ret = success, !.rated = rated]

\* hw is the value sendSdoRead leaves in motorRatedCurrent (the drive's value
\* when the read succeeds, whatever the uninitialised local held when it
\* fails); currentDriveState is what the statusword read decodes to.
runPreopConfiguration(m, fails, cfg, hw, currentDriveState) ==
  LET backfill == cfg.motorRatedCurrentA = 0
      m1 == IF backfill
            THEN Step(Mailbox(m, fails, "sendSdoRead", "MOTOR_RATED_CURRENT", 0, 0),
                      "readMotorRatedCurrent")
            ELSE m
      rated == IF backfill THEN hw ELSE cfg.motorRatedCurrentA
      m2 == Step(setDriveStateViaSdo(m1, fails, "ReadyToSwitchOn", currentDriveState),
                 "setDriveStateViaSdo")
      m3 == Step(mapPdos(m2, fails, cfg.rxPdoTypeEnum, cfg.txPdoTypeEnum), "mapPdos")
      m4 == Step(Mailbox(m3, fails, "sdoVerifyWrite", "MODES_OF_OPERATION", 0,
                         ModeRaw(cfg.modeOfOperationEnum)),
                 "writeModeOfOperation")
      m5 == [m4 EXCEPT !.log = Append(@, [kind |-> "getHardwarePdoSizes", index |-> "",
                                          sub |-> 0, value |-> 0, ok |-> TRUE])]
      m6 == Step(Mailbox(m5, fails, "sdoVerifyWrite", "MOTOR_RATED_CURRENT", 0, rated),
                 "writeMotorRatedCurrent")
      m7 == Step(Mailbox(m6, fails, "sdoVerifyWrite", "MOTOR_RATED_TORQUE", 0, rated),
                 "writeMotorRatedTorque")
      m8 == Step(Mailbox(m7, fails, "sdoVerifyWrite", "MAX_CURRENT", 0, cfg.maxCurrentA),
                 "writeMaxCurrent")
      success == \A i \in 1 .. Len(m8.steps) : m8.steps[i].ok
      m9 == IF ~success THEN addErrorToReading(m8, "ConfigurationError") ELSE m8
  IN [m9 EXCEPT !.ret = success, !.rated = rated]

\* allowModeChange_ as loadConfiguration computes it.
AllowModeChange_anyTx(configuration) ==
  /\ configuration.useMultipleModeOfOperations
  /\ configuration.rxPdoTypeEnum = "RxPdoStandard"

AllowModeChange(configuration) ==
  /\ configuration.useMultipleModeOfOperations
  /\ configuration.rxPdoTypeEnum = "RxPdoStandard"
  /\ configuration.txPdoTypeEnum = "TxPdoStandard"

\* bus_->getHardwarePdoSizes: the frame sizes of the mapped records (bytes).
PdoSizes(rx, tx) ==
  <<CASE rx = "RxPdoStandard" -> 17 [] rx = "RxPdoCST" -> 5 [] OTHER -> 0,
    CASE tx = "TxPdoStandard" -> 22 [] tx = "TxPdoCST" -> 12 [] OTHER -> 0>>

\* ------------------------------------------------------------ cyclic (PDO) path

\* Nothing read from the bus yet.
NoTxPdo == [valid |-> FALSE, actualPosition |-> 0, statusword |-> "NA"]

\* Nothing written to the bus yet.
NoRxPdo ==
  [valid |-> FALSE, layout |-> "NA", controlWord |-> setAllFalse,
   targetTorque |-> 0, modeOfOperation |-> 0]

\* reading_ after construction. statusSample is the position field of the
\* record the statusword was decoded from.
NoReading == [actualPosition |-> 0, statusword |-> "NA", statusSample |-> 0]

\* stagedCommand_ after construction.
NoCommand == [targetTorque |-> 0, targetTorqueRaw |-> 0, modeOfOperation |-> "NA"]

\* The commands the application stages: raw fields not yet converted.
Commands ==
  [targetTorque : 1 .. MaxTorque, targetTorqueRaw : {0},
   modeOfOperation : ModesOfOperation]

\* Command::doUnitConversion on the torque: factor 1000 / motorRatedCurrentA,
\* motor constant and gear ratio 1, rated current held in mA.
doUnitConversion(command, ratedCurrent) ==
  [command EXCEPT !.targetTorqueRaw =
     IF ratedCurrent = 0 THEN 0 ELSE (command.targetTorque * 1000000) \div ratedCurrent]

\* std::recursive_mutex mutex_, as thread t sees it.
CanLock(t) == mutexOwner \in {"none", t}

lock(t) ==
  /\ CanLock(t)
  /\ mutexOwner' = t
  /\ mutexCount' = mutexCount + 1

unlock(t) ==
  /\ mutexOwner' = IF mutexCount = 1 THEN "none" ELSE t
  /\ mutexCount' = mutexCount - 1

\* The steady clock, saturating just above the limit it is compared with.
Advance(since, limit) == IF since > limit THEN since ELSE since + 1

\* The state the engine evaluates (the drive state decoded from reading_).
EngineCurrentDriveState_assumed ==
  IF controlword_ \in Transitions THEN TransitionDest(controlword_) ELSE reading_.statusword

EngineCurrentDriveState == reading_.statusword

\* What updateWrite leaves of the state-change members when the engine does
\* not run.
EngineIdle ==
  [controlword_ |-> controlword_,
   conductStateChange_ |-> conductStateChange_,
   hasRead_ |-> hasRead_,
   stateChangeSuccessful_ |-> stateChangeSuccessful_,
   numberOfSuccessfulTargetStateReadings_ |-> numberOfSuccessfulTargetStateReadings_,
   sinceChange |-> sinceChange,
   errors |-> <<>>,
   evaluated |-> FALSE,
   assigned |-> FALSE]

\* The engine selects a new controlword only after the minimum dwell time.
DwellElapsed_always == TRUE

DwellElapsed_never == FALSE

DwellElapsed == sinceChange > driveStateChangeMinTimeout

\* One run of the engine, as the values it leaves.
engagePdoStateMachine_keepsOnError ==
  LET currentDriveState == EngineCurrentDriveState
      readings == numberOfSuccessfulTargetStateReadings_ + 1
      next == getNextStateTransitionControlword(targetDriveState_, currentDriveState)
      e == [EngineIdle EXCEPT !.evaluated = TRUE]
  IN IF currentDriveState = targetDriveState_
     THEN IF readings >= minNumberOfSuccessfulTargetStateReadings
          THEN [e EXCEPT !.conductStateChange_ = FALSE,
                         !.numberOfSuccessfulTargetStateReadings_ = 0,
                         !.stateChangeSuccessful_ = TRUE]
          ELSE [e EXCEPT !.numberOfSuccessfulTargetStateReadings_ = readings,
                         !.hasRead_ = FALSE]
     ELSE IF DwellElapsed
          THEN [e EXCEPT !.controlword_ = IF next.controlword \in Transitions
                                            THEN next.controlword
                                            ELSE controlword_,
                         !.errors = next.errors,
                         !.sinceChange = 0,
                         !.assigned = TRUE,
                         !.hasRead_ = FALSE]
          ELSE [e EXCEPT !.hasRead_ = FALSE]

engagePdoStateMachine ==
  LET currentDriveState == EngineCurrentDriveState
      readings == numberOfSuccessfulTargetStateReadings_ + 1
      next == getNextStateTransitionControlword(targetDriveState_, currentDriveState)
      e == [EngineIdle EXCEPT !.evaluated = TRUE]
  IN IF currentDriveState = targetDriveState_
     THEN IF readings >= minNumberOfSuccessfulTargetStateReadings
          THEN [e EXCEPT !.conductStateChange_ = FALSE,
                         !.numberOfSuccessfulTargetStateReadings_ = 0,
                         !.stateChangeSuccessful_ = TRUE]
          ELSE [e EXCEPT !.numberOfSuccessfulTargetStateReadings_ = readings,
                         !.hasRead_ = FALSE]
     ELSE IF DwellElapsed
          THEN [e EXCEPT !.controlword_ = next.controlword,
                         !.errors = next.errors,
                         !.sinceChange = 0,
                         !.assigned = TRUE,
                         !.hasRead_ = FALSE]
          ELSE [e EXCEPT !.hasRead_ = FALSE]

\* updateWrite goes on only with a mode of operation set.
ModeOfOperationSet_unchecked == TRUE

ModeOfOperationSet == modeOfOperation_ /= "NA"

\* updateRead reads the error code when the reading decodes to Fault.
DecodedFault_never(reading) == FALSE

DecodedFault(reading) == reading.statusword = "Fault"

\* The outbound record updateWrite encodes, in the layout of the negotiated
\* rx type. Of the target fields the torque stands for all.
RxPdoRecord_delta(controlword) ==
  [valid |-> TRUE, layout |-> currentRxPdoTypeEnum_, controlWord |-> controlword,
   targetTorque |-> stagedCommand_.targetTorqueRaw - rxPdo.targetTorque,
   modeOfOperation |-> ModeRaw(modeOfOperation_)]

RxPdoRecord_stale(controlword) ==
  [valid |-> TRUE, layout |-> currentRxPdoTypeEnum_, controlWord |-> controlword_,
   targetTorque |-> stagedCommand_.targetTorqueRaw,
   modeOfOperation |-> ModeRaw(modeOfOperation_)]

RxPdoRecord(controlword) ==
  [valid |-> TRUE, layout |-> currentRxPdoTypeEnum_, controlWord |-> controlword,
   targetTorque |-> stagedCommand_.targetTorqueRaw,
   modeOfOperation |-> ModeRaw(modeOfOperation_)]

\* The polling loop's timeout test.
TimedOut_never == FALSE

TimedOut == sinceStart > driveStateChangeMaxTimeout

\* The polling loop releases mutex_ before it sleeps.
UnlockDuringSleep_kept == UNCHANGED <<mutexOwner, mutexCount>>

UnlockDuringSleep == unlock("app")

\* The timeout only breaks the loop: the request stays as it is.
TimeoutLeavesRequest_cancelled ==
  /\ conductStateChange_' = FALSE
  /\ UNCHANGED targetDriveState_

TimeoutLeavesRequest == UNCHANGED <<conductStateChange_, targetDriveState_>>

\* The loop is left and mutex_ released one last time.
UnlockOnReturn_kept == UNCHANGED <<mutexOwner, mutexCount>>

UnlockOnReturn == unlock("app")

\* The sequence with x appended unless x is its last element.
AppendNew(seq, x) ==
  IF seq /= <<>> /\ seq[Len(seq)] = x THEN seq ELSE Append(seq, x)

\* --- the blocking operations as steps (specifications SpecSdo, SpecMap, SpecPreop)

\* The object after construction and a first loadConfiguration(configuration).
InitObject(configuration) ==
  /\ configuration_ = configuration
  /\ modeOfOperation_ = configuration_.modeOfOperationEnum
  /\ allowModeChange_ = AllowModeChange(configuration_)
  /\ currentRxPdoTypeEnum_ = "NA"
  /\ currentTxPdoTypeEnum_ = "NA"
  /\ pdoInfo_ = <<0, 0>>

InitOp ==
  /\ busLog = <<>>
  /\ opName = "none"
  /\ opArgs = <<>>
  /\ opReturn = TRUE
  /\ opSteps = <<>>
  /\ preRx = "NA"
  /\ preTx = "NA"

\* The members the cyclic path uses, after construction: no request pending,
\* nothing read or written yet, the drive powered up in SwitchOnDisabled.
InitMembers ==
  /\ mutexOwner = "none"
  /\ mutexCount = 0
  /\ stagedCommandMutex_ = "none"
  /\ readingMutex_ = "none"
  /\ pcCyc = "idle"
  /\ pcApp = "idle"
  /\ position = 0
  /\ urPdo = NoTxPdo
  /\ reading_ = NoReading
  /\ lastFaults = 0
  /\ controlword_ = setAllFalse
  /\ rxPdo = NoRxPdo
  /\ stagedCommand_ = NoCommand
  /\ conductStateChange_ = FALSE
  /\ hasRead_ = FALSE
  /\ stateChangeSuccessful_ = FALSE
  /\ targetDriveState_ = "NA"
  /\ numberOfSuccessfulTargetStateReadings_ = 0
  /\ sinceChange = 0
  /\ sinceStart = 0
  /\ waitForState = FALSE
  /\ appRet = TRUE
  /\ snapshot = NoReading
  /\ issued = <<>>
  /\ seen = {}
  /\ scenarioA = FALSE
  /\ runLength = 0
  /\ successRun = 0
  /\ wrote = FALSE
  /\ sdoReads = 0
  /\ steady = 0
  /\ fresh = FALSE
  /\ evaluatedFresh = TRUE

\* The drive is powered up in SwitchOnDisabled.
InitCyclic ==
  /\ InitMembers
  /\ drive = "SwitchOnDisabled"

InitHarness ==
  /\ tblPc = "call"
  /\ tblRequested = "NA"
  /\ tblCurrent = "NA"
  /\ tblResult = setAllFalse

\* A configuration with both record types supported, a mode and a rated current.
TypicalConfiguration ==
  CHOOSE c \in Configurations :
    /\ c.rxPdoTypeEnum = "RxPdoStandard"
    /\ c.txPdoTypeEnum = "TxPdoStandard"
    /\ c.modeOfOperationEnum /= "NA"
    /\ c.motorRatedCurrentA /= 0

InitConfig ==
  /\ lastErrors = <<>>
  /\ InitHarness
  /\ InitObject(TypicalConfiguration)
  /\ InitOp
  /\ InitCyclic

\* runPreopConfiguration is entered with any record types and with the rated
\* current set or unset.
InitPreop ==
  /\ lastErrors = <<>>
  /\ InitHarness
  /\ \E configuration \in Configurations :
       /\ configuration.modeOfOperationEnum /= "NA"
       /\ InitObject(configuration)
  /\ InitOp
  /\ InitCyclic

\* What every blocking operation leaves of the machine it ran on.
Finish(m, name, args) ==
  /\ busLog' = m.log
  /\ opName' = name
  /\ opArgs' = args
  /\ opReturn' = m.ret
  /\ opSteps' = m.steps
  /\ preRx' = currentRxPdoTypeEnum_
  /\ preTx' = currentTxPdoTypeEnum_
  /\ currentRxPdoTypeEnum_' = m.rx
  /\ currentTxPdoTypeEnum_' = m.tx
  /\ lastErrors' = m.errors

\* A blocking operation is entered when the caller holds no earlier result.
Idle == opName = "none"

\* The caller has read the result; the object keeps what the operation set.
BackToCaller ==
  /\ ~Idle
  /\ busLog' = <<>>
  /\ opName' = "none"
  /\ opArgs' = <<>>
  /\ opReturn' = TRUE
  /\ opSteps' = <<>>
  /\ preRx' = currentRxPdoTypeEnum_
  /\ preTx' = currentTxPdoTypeEnum_
  /\ lastErrors' = <<>>
  /\ UNCHANGED <<tblVars, cfgVars, cycVars>>

RunPreopConfiguration ==
  /\ Idle
  /\ \E fails \in FailSets, currentDriveState \in DriveStates,
        hw \in IF configuration_.motorRatedCurrentA = 0 THEN {0, 2000} ELSE {0} :
       LET m == runPreopConfiguration(
                  Machine(currentRxPdoTypeEnum_, currentTxPdoTypeEnum_), fails,
                  configuration_, hw, currentDriveState)
       IN /\ Finish(m, "runPreopConfiguration",
                    <<configuration_.motorRatedCurrentA, currentDriveState>>)
          /\ configuration_' = [configuration_ EXCEPT !.motorRatedCurrentA = m.rated]
          /\ pdoInfo_' = PdoSizes(m.rx, m.tx)
          /\ UNCHANGED <<tblVars, modeOfOperation_, allowModeChange_, cycVars>>

SetDriveStateViaSdo ==
  /\ Idle
  /\ \E fails \in FailSets, driveState \in DriveStates,
        currentDriveState \in DriveStates :
       LET m == setDriveStateViaSdo(
                  Machine(currentRxPdoTypeEnum_, currentTxPdoTypeEnum_), fails,
                  driveState, currentDriveState)
       IN /\ Finish(m, "setDriveStateViaSdo", <<driveState, currentDriveState>>)
          /\ UNCHANGED <<tblVars, configuration_, modeOfOperation_, allowModeChange_,
                         pdoInfo_, cycVars>>

MapPdos ==
  /\ Idle
  /\ \E fails \in FailSets, rxPdoTypeEnum \in RxPdoTypes \cup {"Other"},
        txPdoTypeEnum \in TxPdoTypes \cup {"Other"} :
       LET m == mapPdos(Machine(currentRxPdoTypeEnum_, currentTxPdoTypeEnum_), fails,
                        rxPdoTypeEnum, txPdoTypeEnum)
       IN /\ Finish(m, "mapPdos", <<rxPdoTypeEnum, txPdoTypeEnum>>)
          /\ UNCHANGED <<tblVars, configuration_, modeOfOperation_, allowModeChange_,
                         pdoInfo_, cycVars>>

NextSdo == SetDriveStateViaSdo \/ BackToCaller

SpecSdo == InitConfig /\ [][NextSdo]_vars

\* configureRxPdo / configureTxPdo called on their own.
ConfigureRxPdo ==
  /\ Idle
  /\ \E rxPdoTypeEnum \in RxPdoTypes :
       LET m == configureRxPdo(Machine(currentRxPdoTypeEnum_, currentTxPdoTypeEnum_),
                               rxPdoTypeEnum)
       IN /\ Finish(m, "configureRxPdo", <<rxPdoTypeEnum>>)
          /\ UNCHANGED <<tblVars, configuration_, modeOfOperation_, allowModeChange_,
                         pdoInfo_, cycVars>>

ConfigureTxPdo ==
  /\ Idle
  /\ \E txPdoTypeEnum \in TxPdoTypes :
       LET m == configureTxPdo(Machine(currentRxPdoTypeEnum_, currentTxPdoTypeEnum_),
                               txPdoTypeEnum)
       IN /\ Finish(m, "configureTxPdo", <<txPdoTypeEnum>>)
          /\ UNCHANGED <<tblVars, configuration_, modeOfOperation_, allowModeChange_,
                         pdoInfo_, cycVars>>

NextMap == MapPdos \/ BackToCaller

NextConfigure == ConfigureRxPdo \/ ConfigureTxPdo \/ MapPdos \/ BackToCaller

SpecConfigure == InitConfig /\ [][NextConfigure]_vars

SpecMap == InitConfig /\ [][NextMap]_vars

NextPreop == RunPreopConfiguration \/ BackToCaller

SpecPreop == InitPreop /\ [][NextPreop]_vars

\* --- the lookup applied to drawn inputs (specification SpecTable)

InitTable ==
  /\ lastErrors = <<>>
  /\ tblPc = "call"
  /\ tblRequested \in DriveStates
  /\ tblCurrent \in DriveStates
  /\ tblResult = setAllFalse
  /\ InitObject(TypicalConfiguration)
  /\ InitOp
  /\ InitCyclic

TableLookup ==
  /\ tblPc = "call"
  /\ LET r == getNextStateTransitionControlword(tblRequested, tblCurrent)
     IN /\ tblResult' = r.controlword
        /\ lastErrors' = r.errors
  /\ tblPc' = "ret"
  /\ UNCHANGED <<tblRequested, tblCurrent, cfgVars, opVars, cycVars>>

TableNextInput ==
  /\ tblPc = "ret"
  /\ tblPc' = "call"
  /\ \E r \in DriveStates, c \in DriveStates :
       /\ tblRequested' = r
       /\ tblCurrent' = c
  /\ lastErrors' = <<>>
  /\ UNCHANGED <<tblResult, cfgVars, opVars, cycVars>>

NextTable == TableLookup \/ TableNextInput

SpecTable == InitTable /\ [][NextTable]_vars

\* ------------------------------------------------------------ cyclic steps

\* What the cyclic and application steps leave alone.
StaticVars == <<tblVars, configuration_, allowModeChange_, currentRxPdoTypeEnum_,
                currentTxPdoTypeEnum_, pdoInfo_, opVars>>

\* The object after loadConfiguration and a successful runPreopConfiguration:
\* both record types negotiated, nothing requested, read or written yet.
InitStarted ==
  /\ lastErrors = <<>>
  /\ InitHarness
  /\ configuration_ = TypicalConfiguration
  /\ modeOfOperation_ = configuration_.modeOfOperationEnum
  /\ allowModeChange_ = AllowModeChange(configuration_)
  /\ currentRxPdoTypeEnum_ = configuration_.rxPdoTypeEnum
  /\ currentTxPdoTypeEnum_ = configuration_.txPdoTypeEnum
  /\ pdoInfo_ = PdoSizes(currentRxPdoTypeEnum_, currentTxPdoTypeEnum_)
  /\ InitOp
  /\ InitCyclic

UpdateWrite ==
  /\ pcCyc = "idle"
  /\ CanLock("cyc")
  /\ IF ~ModeOfOperationSet
     THEN /\ lastErrors' = <<"ModeOfOperationError">>
          /\ wrote' = FALSE
          /\ steady' = 0
          /\ UNCHANGED <<controlword_, conductStateChange_, hasRead_,
                         stateChangeSuccessful_,
                         numberOfSuccessfulTargetStateReadings_, sinceChange,
                         rxPdo, issued, seen, runLength, successRun, fresh,
                         evaluatedFresh>>
     ELSE LET e == IF conductStateChange_ /\ hasRead_
                   THEN engagePdoStateMachine
                   ELSE EngineIdle
              supported == currentRxPdoTypeEnum_ \in {"RxPdoStandard", "RxPdoCST"}
              matched == reading_.statusword = targetDriveState_
          IN /\ controlword_' = e.controlword_
             /\ conductStateChange_' = e.conductStateChange_
             /\ hasRead_' = e.hasRead_
             /\ stateChangeSuccessful_' = e.stateChangeSuccessful_
             /\ numberOfSuccessfulTargetStateReadings_' =
                  e.numberOfSuccessfulTargetStateReadings_
             /\ sinceChange' = e.sinceChange
             /\ rxPdo' = IF supported THEN RxPdoRecord(e.controlword_) ELSE rxPdo
             /\ lastErrors' =
                  e.errors \o (IF supported THEN <<>> ELSE <<"RxPdoTypeError">>)
             /\ seen' = IF e.evaluated /\ scenarioA
                        THEN seen \cup {reading_.statusword}
                        ELSE seen
             /\ issued' = IF e.assigned /\ scenarioA
                          THEN AppendNew(issued, e.controlword_)
                          ELSE issued
             /\ runLength' =
                  IF ~e.evaluated THEN runLength
                  ELSE IF matched /\ ~e.stateChangeSuccessful_ THEN runLength + 1
                  ELSE 0
             /\ successRun' =
                  IF e.evaluated /\ e.stateChangeSuccessful_
                  THEN (IF matched THEN runLength + 1 ELSE 0)
                  ELSE successRun
             /\ wrote' = supported
             /\ steady' = IF ~supported THEN 0 ELSE IF steady = 0 THEN 1 ELSE 2
             /\ fresh' = (fresh /\ ~e.evaluated)
             /\ evaluatedFresh' = IF e.evaluated THEN fresh ELSE evaluatedFresh
  /\ UNCHANGED <<lockVars, pcVars, drive, position, urPdo, readVars, targetDriveState_,
                 sinceStart, appVars, scenarioA, StaticVars, modeOfOperation_, sdoReads>>

\* updateRead up to its first setter: the record is read and the position stored.
UpdateReadBegin ==
  /\ pcCyc = "idle"
  /\ lock("cyc")
  /\ pcCyc' = "ur_mid"
  /\ IF currentTxPdoTypeEnum_ \in {"TxPdoStandard", "TxPdoCST"}
     THEN /\ urPdo' = [valid |-> TRUE,
                       actualPosition |-> position,
                       statusword |-> drive]
          /\ reading_' = [reading_ EXCEPT !.actualPosition = urPdo'.actualPosition]
          /\ lastErrors' = <<>>
     ELSE /\ lastErrors' = <<"TxPdoTypeError">>
          /\ UNCHANGED <<urPdo, reading_>>
  /\ UNCHANGED <<stagedCommandMutex_, readingMutex_, pcApp, drive, position, rxPdo,
                 lastFaults,
                 changeVars, timeVars, appVars, obsVars, StaticVars, traceVars,
                 modeOfOperation_>>

\* The rest of updateRead: the statusword is stored, hasRead_ set and, in
\* Fault, the error code read through the mailbox.
UpdateReadEnd ==
  /\ pcCyc = "ur_mid"
  /\ unlock("cyc")
  /\ pcCyc' = "idle"
  /\ reading_' = IF currentTxPdoTypeEnum_ \in {"TxPdoStandard", "TxPdoCST"}
                 THEN [reading_ EXCEPT !.statusword = urPdo.statusword,
                                       !.statusSample = urPdo.actualPosition]
                 ELSE reading_
  /\ hasRead_' = TRUE
  /\ fresh' = (fresh \/ currentTxPdoTypeEnum_ \in {"TxPdoStandard", "TxPdoCST"})
  /\ IF DecodedFault(reading_')
     THEN \E ok \in BOOLEAN :
            /\ sdoReads' = 1
            /\ lastFaults' = IF ok THEN 1 ELSE 0
            /\ lastErrors' = IF ok THEN lastErrors
                             ELSE Append(lastErrors, "ErrorReadingError")
     ELSE /\ sdoReads' = 0
          /\ lastFaults' = 0
          /\ UNCHANGED lastErrors
  /\ UNCHANGED <<stagedCommandMutex_, readingMutex_, pcApp, busVars, controlword_,
                 conductStateChange_, stateChangeSuccessful_, targetDriveState_,
                 numberOfSuccessfulTargetStateReadings_, timeVars, appVars,
                 issued, seen, scenarioA, runLength, successRun, StaticVars,
                 modeOfOperation_, wrote, steady, evaluatedFresh>>

\* The drive acts on the controlword of the last outbound record when that
\* transition leaves its current state.
DriveReacts ==
  /\ rxPdo.valid
  /\ rxPdo.controlWord \in Transitions
  /\ TransitionSource(rxPdo.controlWord) = drive

DriveStep ==
  /\ DriveReacts
  /\ drive' = TransitionDest(rxPdo.controlWord)
  /\ UNCHANGED <<lastErrors, lockVars, pcVars, position, urPdo, rxPdo, readVars,
                 changeVars, timeVars, appVars, obsVars, StaticVars, traceVars, modeOfOperation_>>

\* The drive trips into Fault on its own.
DriveFault ==
  /\ drive /= "Fault"
  /\ drive' = "Fault"
  /\ scenarioA' = FALSE
  /\ issued' = <<>>
  /\ seen' = {}
  /\ UNCHANGED <<lastErrors, lockVars, pcVars, position, urPdo, rxPdo, readVars,
                 changeVars, timeVars, appVars, runLength, successRun, StaticVars, traceVars,
                 modeOfOperation_>>

\* The drive shows a statusword that decodes to none of the six states.
DriveUndefined ==
  /\ drive /= "NA"
  /\ drive' = "NA"
  /\ UNCHANGED <<lastErrors, lockVars, pcVars, position, urPdo, rxPdo, readVars,
                 changeVars, timeVars, appVars, obsVars, StaticVars, traceVars,
                 modeOfOperation_>>

\* The motor turns: the next record carries another position.
DriveMoves ==
  /\ position' = (position + 1) % NumSamples
  /\ UNCHANGED <<lastErrors, lockVars, pcVars, drive, urPdo, rxPdo, readVars,
                 changeVars, timeVars, appVars, obsVars, StaticVars, traceVars, modeOfOperation_>>

\* The steady clock advances; sinceStart exists while setDriveStateViaPdo waits.
Waiting == pcApp \in {"sp_poll", "sp_sleep"}

Tick ==
  /\ \/ sinceChange <= driveStateChangeMinTimeout
     \/ Waiting /\ sinceStart <= driveStateChangeMaxTimeout
  /\ sinceChange' = Advance(sinceChange, driveStateChangeMinTimeout)
  /\ sinceStart' = IF Waiting
                   THEN Advance(sinceStart, driveStateChangeMaxTimeout)
                   ELSE sinceStart
  /\ UNCHANGED <<lastErrors, lockVars, pcVars, busVars, readVars, changeVars,
                 appVars, obsVars, StaticVars, traceVars, modeOfOperation_>>

\* ------------------------------------------------------------ application steps

\* setDriveStateViaPdo up to the loop: the request is placed under mutex_.
SetDriveStateViaPdo ==
  /\ pcApp = "idle"
  /\ CanLock("app")
  /\ \E driveState \in DriveStates6, wait \in BOOLEAN :
       /\ stateChangeSuccessful_' = FALSE
       /\ conductStateChange_' = TRUE
       /\ targetDriveState_' = driveState
       /\ hasRead_' = FALSE
       /\ sinceChange' = 0
       /\ sinceStart' = 0
       /\ waitForState' = wait
       /\ IF wait
          THEN /\ lock("app")
               /\ pcApp' = "sp_poll"
               /\ UNCHANGED appRet
          ELSE /\ pcApp' = "sp_ret"
               /\ appRet' = TRUE
               /\ UNCHANGED <<mutexOwner, mutexCount>>
       /\ scenarioA' = (driveState = "OperationEnabled" /\ drive = "SwitchOnDisabled"
                          /\ ~DriveReacts)
  /\ issued' = <<>>
  /\ seen' = {}
  /\ runLength' = 0
  /\ successRun' = 0
  /\ fresh' = FALSE
  /\ UNCHANGED <<lastErrors, stagedCommandMutex_, readingMutex_, pcCyc, busVars,
                 readVars, controlword_, numberOfSuccessfulTargetStateReadings_,
                 snapshot, stagedCommand_, StaticVars, wrote, sdoReads,
                 steady, evaluatedFresh, modeOfOperation_>>

\* One pass of the loop, mutex_ held: success, timeout, or unlock and sleep.
SetDriveStateViaPdoPoll ==
  /\ pcApp = "sp_poll"
  /\ IF stateChangeSuccessful_
     THEN /\ appRet' = TRUE
          /\ pcApp' = "sp_ret"
          /\ UnlockOnReturn
          /\ UNCHANGED <<conductStateChange_, targetDriveState_>>
     ELSE IF TimedOut
          THEN /\ appRet' = FALSE
               /\ pcApp' = "sp_ret"
               /\ UnlockOnReturn
               /\ TimeoutLeavesRequest
          ELSE /\ pcApp' = "sp_sleep"
               /\ UnlockDuringSleep
               /\ UNCHANGED <<appRet, conductStateChange_, targetDriveState_>>
  /\ UNCHANGED <<lastErrors, stagedCommandMutex_, readingMutex_, pcCyc, busVars,
                 readVars, controlword_, hasRead_, stateChangeSuccessful_,
                 numberOfSuccessfulTargetStateReadings_, timeVars, waitForState, snapshot,
                 stagedCommand_, issued, seen, scenarioA, runLength, successRun,
                 StaticVars, traceVars, modeOfOperation_>>

\* The sleep is over and mutex_ is taken again.
SetDriveStateViaPdoWake ==
  /\ pcApp = "sp_sleep"
  /\ lock("app")
  /\ pcApp' = "sp_poll"
  /\ UNCHANGED <<lastErrors, stagedCommandMutex_, readingMutex_, pcCyc, busVars,
                 readVars, changeVars, timeVars, appVars, obsVars, StaticVars, traceVars,
                 modeOfOperation_>>

\* getReading, first half of the copy, under readingMutex_.
GetReadingBegin ==
  /\ pcApp = "idle"
  /\ readingMutex_ = "none"
  /\ readingMutex_' = "app"
  /\ pcApp' = "gr_mid"
  /\ snapshot' = [snapshot EXCEPT !.actualPosition = reading_.actualPosition]
  /\ UNCHANGED <<lastErrors, mutexOwner, mutexCount, stagedCommandMutex_, pcCyc,
                 busVars, readVars, changeVars, timeVars, waitForState, appRet,
                 stagedCommand_, obsVars, StaticVars, traceVars, modeOfOperation_>>

\* getReading, second half of the copy and return.
GetReadingEnd ==
  /\ pcApp = "gr_mid"
  /\ readingMutex_' = "none"
  /\ pcApp' = "gr_ret"
  /\ snapshot' = [snapshot EXCEPT !.statusword = reading_.statusword,
                                  !.statusSample = reading_.statusSample]
  /\ UNCHANGED <<lastErrors, mutexOwner, mutexCount, stagedCommandMutex_, pcCyc,
                 busVars, readVars, changeVars, timeVars, waitForState, appRet,
                 stagedCommand_, obsVars, StaticVars, traceVars, modeOfOperation_>>

\* stageCommand up to the unit conversion: the command is assigned under
\* stagedCommandMutex_.
StageCommandBegin ==
  /\ pcApp = "idle"
  /\ stagedCommandMutex_ = "none"
  /\ stagedCommandMutex_' = "app"
  /\ pcApp' = "sc_mid"
  /\ steady' = 0
  /\ \E command \in Commands : stagedCommand_' = command
  /\ UNCHANGED <<lastErrors, mutexOwner, mutexCount, readingMutex_, pcCyc, busVars,
                 readVars, changeVars, timeVars, waitForState, appRet, snapshot,
                 obsVars, StaticVars, wrote, sdoReads, fresh,
                 evaluatedFresh, modeOfOperation_>>

\* stageCommand from doUnitConversion on; the mode is taken from the command.
StageCommandEnd ==
  /\ pcApp = "sc_mid"
  /\ stagedCommandMutex_' = "none"
  /\ pcApp' = "sc_ret"
  /\ steady' = 0
  /\ stagedCommand_' = doUnitConversion(stagedCommand_, configuration_.motorRatedCurrentA)
  /\ modeOfOperation_' = IF allowModeChange_
                         THEN stagedCommand_.modeOfOperation
                         ELSE modeOfOperation_
  /\ UNCHANGED <<lastErrors, mutexOwner, mutexCount, readingMutex_, pcCyc, busVars,
                 readVars, changeVars, timeVars, waitForState, appRet, snapshot,
                 obsVars, StaticVars, wrote, sdoReads, fresh,
                 evaluatedFresh>>

\* The call has returned and the caller has taken its result.
AppReturn ==
  /\ pcApp \in {"sp_ret", "gr_ret", "sc_ret"}
  /\ pcApp' = "idle"
  /\ waitForState' = FALSE
  /\ appRet' = TRUE
  /\ snapshot' = NoReading
  /\ sinceStart' = 0
  /\ UNCHANGED <<lastErrors, lockVars, pcCyc, busVars, readVars, changeVars,
                 sinceChange, stagedCommand_, obsVars, StaticVars, traceVars, modeOfOperation_>>

\* The state-change engine: cyclic thread, one application thread, drive, clock.
NextEngine ==
  \/ UpdateWrite
  \/ UpdateReadBegin
  \/ UpdateReadEnd
  \/ DriveStep
  \/ DriveFault
  \/ Tick
  \/ SetDriveStateViaPdo
  \/ SetDriveStateViaPdoPoll
  \/ SetDriveStateViaPdoWake
  \/ AppReturn

SpecEngine == InitStarted /\ [][NextEngine]_vars

\* The blocking wait against a drive that follows its commands at its own pace
\* or not at all.
NextWait ==
  \/ UpdateWrite
  \/ UpdateReadBegin
  \/ UpdateReadEnd
  \/ DriveStep
  \/ Tick
  \/ SetDriveStateViaPdo
  \/ SetDriveStateViaPdoPoll
  \/ SetDriveStateViaPdoWake
  \/ AppReturn

\* The clock advances, an updateRead under way ends, the caller's loop keeps
\* running, and a thread that keeps asking for mutex_ gets it.
SpecWaitFair ==
  /\ InitStarted
  /\ [][NextWait]_vars
  /\ WF_vars(Tick)
  /\ WF_vars(UpdateReadEnd)
  /\ WF_vars(SetDriveStateViaPdoPoll)
  /\ SF_vars(SetDriveStateViaPdoWake)

\* The engine with a drive whose statusword may stop decoding.
NextUndefined ==
  \/ UpdateWrite
  \/ UpdateReadBegin
  \/ UpdateReadEnd
  \/ DriveStep
  \/ DriveUndefined
  \/ Tick
  \/ SetDriveStateViaPdo /\ ~waitForState'
  \/ AppReturn

SpecUndefined == InitStarted /\ [][NextUndefined]_vars

\* The reading cache and the staged command between the two threads.
NextRead ==
  \/ DriveMoves
  \/ UpdateWrite
  \/ UpdateReadBegin
  \/ UpdateReadEnd
  \/ GetReadingBegin
  \/ GetReadingEnd
  \/ StageCommandBegin
  \/ StageCommandEnd
  \/ AppReturn

SpecRead == InitStarted /\ [][NextRead]_vars

\* ------------------------------------------------------------ any loaded object

\* The configurations the cyclic path is run with.
CycleConfigurations ==
  {c \in Configurations : c.txPdoTypeEnum /= "TxPdoCST" /\ c.motorRatedCurrentA /= 0}

\* The object after loadConfiguration, with or without a successful
\* runPreopConfiguration: a negotiated type is the configured one or still NA.
InitLoaded ==
  /\ lastErrors = <<>>
  /\ InitHarness
  /\ configuration_ \in CycleConfigurations
  /\ modeOfOperation_ = configuration_.modeOfOperationEnum
  /\ allowModeChange_ = AllowModeChange(configuration_)
  /\ currentRxPdoTypeEnum_ = configuration_.rxPdoTypeEnum
  /\ currentTxPdoTypeEnum_ = configuration_.txPdoTypeEnum
  /\ pdoInfo_ = PdoSizes(currentRxPdoTypeEnum_, currentTxPdoTypeEnum_)
  /\ InitOp
  /\ InitCyclic

\* The targets requested of the cyclic path: up to OperationEnabled and back.
CycleTargets == {"SwitchOnDisabled", "OperationEnabled"}

\* setDriveStateViaPdo(driveState, false).
RequestWithoutWait ==
  /\ SetDriveStateViaPdo
  /\ ~waitForState'
  /\ targetDriveState_' \in CycleTargets

\* The cyclic thread against an application thread that stages commands and
\* requests state changes without waiting.
NextCycle ==
  \/ UpdateWrite
  \/ UpdateReadBegin
  \/ UpdateReadEnd
  \/ DriveStep
  \/ Tick
  \/ RequestWithoutWait
  \/ StageCommandBegin
  \/ StageCommandEnd
  \/ AppReturn

SpecCycle == InitLoaded /\ [][NextCycle]_vars

\* stageCommand and updateWrite on an object loaded with any supported types,
\* with and without several modes of operation.
ModeConfigurations ==
  [rxPdoTypeEnum : {"RxPdoStandard", "RxPdoCST"},
   txPdoTypeEnum : {"TxPdoStandard", "TxPdoCST"},
   modeOfOperationEnum : ModesOfOperation,
   useMultipleModeOfOperations : BOOLEAN,
   motorRatedCurrentA : {2000},
   maxCurrentA : {3000}]

InitMode ==
  /\ lastErrors = <<>>
  /\ InitHarness
  /\ configuration_ \in ModeConfigurations
  /\ modeOfOperation_ = configuration_.modeOfOperationEnum
  /\ allowModeChange_ = AllowModeChange(configuration_)
  /\ currentRxPdoTypeEnum_ = configuration_.rxPdoTypeEnum
  /\ currentTxPdoTypeEnum_ = configuration_.txPdoTypeEnum
  /\ pdoInfo_ = PdoSizes(currentRxPdoTypeEnum_, currentTxPdoTypeEnum_)
  /\ InitOp
  /\ InitCyclic

NextMode == UpdateWrite \/ StageCommandBegin \/ StageCommandEnd \/ AppReturn

SpecMode == InitMode /\ [][NextMode]_vars

\* The non-blocking engine from any drive state: a loaded object, the drive in
\* any of the six states, one request at a time and none for Fault.
LiveConfigurations == {c \in CycleConfigurations : c.rxPdoTypeEnum /= "RxPdoCST"}

InitLive ==
  /\ lastErrors = <<>>
  /\ InitHarness
  /\ configuration_ \in LiveConfigurations
  /\ modeOfOperation_ = configuration_.modeOfOperationEnum
  /\ allowModeChange_ = AllowModeChange(configuration_)
  /\ currentRxPdoTypeEnum_ = configuration_.rxPdoTypeEnum
  /\ currentTxPdoTypeEnum_ = configuration_.txPdoTypeEnum
  /\ pdoInfo_ = PdoSizes(currentRxPdoTypeEnum_, currentTxPdoTypeEnum_)
  /\ InitOp
  /\ InitMembers
  /\ drive \in DriveStates6

LiveTargets == DriveStates6 \ {"Fault"}

RequestWhenDone ==
  /\ ~conductStateChange_
  /\ SetDriveStateViaPdo
  /\ ~waitForState'
  /\ targetDriveState_' \in LiveTargets

NextLive ==
  \/ UpdateWrite
  \/ UpdateReadBegin
  \/ UpdateReadEnd
  \/ DriveStep
  \/ Tick
  \/ RequestWhenDone
  \/ AppReturn

\* updateRead and updateWrite are each called again and again, an updateRead
\* under way ends, the clock advances, and the drive acts on a controlword
\* that stays in front of it.
SpecLive ==
  /\ InitLive
  /\ [][NextLive]_vars
  /\ SF_vars(UpdateWrite)
  /\ SF_vars(UpdateReadBegin)
  /\ WF_vars(UpdateReadEnd)
  /\ WF_vars(Tick)
  /\ WF_vars(DriveStep)

\* ------------------------------------------------------------ claims

\* C1 (as stated): for every pair of the six states with requested /= current
\* the lookup returns the controlword of a standard transition leaving `current`.
C1_Original ==
  (tblPc = "ret" /\ tblRequested \in DriveStates6 /\ tblCurrent \in DriveStates6
     /\ tblRequested /= tblCurrent)
  => (tblResult \in Transitions /\ TransitionSource(tblResult) = tblCurrent)

\* C1 (amended): for the 25 pairs whose requested state is one of the five
\* commandable states (every state but Fault) and differs from the current
\* one, the lookup returns the controlword of a standard transition leaving
\* `current`; for the diagonal pairs and for every pair
\* whose requested state is Fault it records a PdoStateTransitionError and
\* returns the all-false controlword.
C1_Lookup ==
  (tblPc = "ret" /\ tblRequested \in DriveStates6 /\ tblCurrent \in DriveStates6)
  => IF tblRequested /= tblCurrent /\ tblRequested /= "Fault"
     THEN /\ tblResult \in Transitions
          /\ TransitionSource(tblResult) = tblCurrent
     ELSE /\ tblResult = setAllFalse
          /\ lastErrors = <<"PdoStateTransitionError">>

C1_Witness ==
  /\ tblPc = "ret"
  /\ tblRequested = "OperationEnabled"
  /\ tblCurrent = "QuickStopActive"
  /\ tblResult = 12

\* --- observers of the last blocking operation

InSeq(e, seq) == \E i \in 1 .. Len(seq) : seq[i] = e

\* The positions of busLog holding a call of `kind` on object `index`.
Calls(kind, index) ==
  {i \in 1 .. Len(busLog) : busLog[i].kind = kind /\ busLog[i].index = index}

ControlwordWrites == Calls("sendSdoWrite", "CONTROLWORD")

MailboxCalls == {i \in 1 .. Len(busLog) : busLog[i].kind \notin {"usleep", "getHardwarePdoSizes"}}

\* C4 (as stated): in setDriveStateViaSdo no transition is written after a
\* failed controlword write of the chain, the call then returns false, and it
\* returns true only if every transition write succeeded.
C4_ChainAborted ==
  opName = "setDriveStateViaSdo"
  => /\ \A i \in ControlwordWrites, j \in ControlwordWrites :
          (i < j) => busLog[i].ok
     /\ (\E i \in ControlwordWrites : ~busLog[i].ok) => ~opReturn
     /\ opReturn => \A i \in ControlwordWrites : busLog[i].ok

\* C9: runPreopConfiguration attempts every step whatever the earlier steps
\* returned (the rated-current read when the rated current is unset, the
\* statusword read of setDriveStateViaSdo, the PDO-assignment writes of every
\* supported side, the mode write, the PDO size refresh, and the rated-current,
\* rated-torque and max-current writes); it returns true exactly when every
\* step succeeded, and records a ConfigurationError exactly when it returns false.
C9_PreopAggregates ==
  opName = "runPreopConfiguration"
  => LET rxOk == configuration_.rxPdoTypeEnum \in {"RxPdoStandard", "RxPdoCST"}
         txOk == configuration_.txPdoTypeEnum \in {"TxPdoStandard", "TxPdoCST"}
         names == [i \in 1 .. Len(opSteps) |-> opSteps[i].name]
         tail == <<"setDriveStateViaSdo", "mapPdos", "writeModeOfOperation",
                   "writeMotorRatedCurrent", "writeMotorRatedTorque",
                   "writeMaxCurrent">>
     IN /\ names = IF opArgs[1] = 0 THEN <<"readMotorRatedCurrent">> \o tail ELSE tail
        /\ Cardinality(Calls("sendSdoRead", "MOTOR_RATED_CURRENT"))
             = IF opArgs[1] = 0 THEN 1 ELSE 0
        /\ Cardinality(Calls("sendSdoRead", "STATUSWORD")) = 1
        /\ Cardinality(Calls("sdoVerifyWrite", "RX_PDO_ASSIGNMENT"))
             = IF rxOk THEN 4 ELSE 0
        /\ Cardinality(Calls("sdoVerifyWrite", "TX_PDO_ASSIGNMENT"))
             = CASE configuration_.txPdoTypeEnum = "TxPdoStandard" -> 6
                 [] configuration_.txPdoTypeEnum = "TxPdoCST" -> 4
                 [] OTHER -> 0
        /\ Cardinality(Calls("sdoVerifyWrite", "MODES_OF_OPERATION")) = 1
        /\ Cardinality(Calls("getHardwarePdoSizes", "")) = 1
        /\ Cardinality(Calls("sdoVerifyWrite", "MOTOR_RATED_CURRENT")) = 1
        /\ Cardinality(Calls("sdoVerifyWrite", "MOTOR_RATED_TORQUE")) = 1
        /\ Cardinality(Calls("sdoVerifyWrite", "MAX_CURRENT")) = 1
        /\ opReturn = (\A i \in 1 .. Len(opSteps) : opSteps[i].ok)
        /\ opReturn = (/\ \A i \in MailboxCalls : busLog[i].ok
                       /\ rxOk
                       /\ txOk
                       /\ opArgs[2] \in DriveStates6)
        /\ InSeq("ConfigurationError", lastErrors) = ~opReturn

\* A run whose first step (the statusword read) fails and whose later steps
\* are all made, and one that succeeds.
C9_Witness ==
  /\ opName = "runPreopConfiguration"
  /\ ~opReturn
  /\ ~opSteps[1].ok
  /\ opSteps[Len(opSteps)].ok
  /\ Len(opSteps) = 6
  /\ InSeq("ConfigurationError", lastErrors)

\* C10: mapPdos given, for a side, NA or a type outside the supported ones
\* returns false, records PdoMappingError (rx) / TxPdoMappingError (tx),
\* issues no mailbox write on that side's assignment object, and leaves that
\* side's negotiated type as it was.
C10_UnsupportedType ==
  opName = "mapPdos"
  => /\ opArgs[1] \notin {"RxPdoStandard", "RxPdoCST"}
          => /\ ~opReturn
             /\ InSeq("PdoMappingError", lastErrors)
             /\ Calls("sdoVerifyWrite", "RX_PDO_ASSIGNMENT") = {}
             /\ currentRxPdoTypeEnum_ = preRx
     /\ opArgs[2] \notin {"TxPdoStandard", "TxPdoCST"}
          => /\ ~opReturn
             /\ InSeq("TxPdoMappingError", lastErrors)
             /\ Calls("sdoVerifyWrite", "TX_PDO_ASSIGNMENT") = {}
             /\ currentTxPdoTypeEnum_ = preTx

\* NA for rx after RxPdoStandard was negotiated, while the tx side is mapped.
C10_Witness ==
  /\ opName = "mapPdos"
  /\ opArgs = <<"NA", "TxPdoCST">>
  /\ preRx = "RxPdoStandard"
  /\ currentRxPdoTypeEnum_ = "RxPdoStandard"
  /\ currentTxPdoTypeEnum_ = "TxPdoCST"
  /\ ~opReturn
  /\ Calls("sdoVerifyWrite", "TX_PDO_ASSIGNMENT") /= {}

\* ------------------------------------------------------------ claims, cyclic path

\* C2: after a request for OperationEnabled placed while the drive rests in
\* SwitchOnDisabled (no earlier controlword still moving it, no fault since),
\* the distinct controlwords the engine assigns are, in order, those of
\* transition 2, then 3, then 4; transition 3 is assigned only once the engine
\* has evaluated a reading showing ReadyToSwitchOn, and transition 4 only once
\* it has evaluated a reading showing SwitchedOn.
C2_ScenarioA ==
  scenarioA =>
    /\ \E n \in 0 .. 3 :
         issued = SubSeq(<<setStateTransition(2), setStateTransition(3),
                           setStateTransition(4)>>, 1, n)
    /\ InSeq(setStateTransition(3), issued) => "ReadyToSwitchOn" \in seen
    /\ InSeq(setStateTransition(4), issued) => "SwitchedOn" \in seen

\* Scenario A ran to its end: 2, 3 and 4 were assigned and the request succeeded.
C2_Witness ==
  /\ scenarioA
  /\ issued = <<setStateTransition(2), setStateTransition(3), setStateTransition(4)>>
  /\ stateChangeSuccessful_

\* C3 (as stated): a request is marked successful only after the engine has
\* evaluated minNumberOfSuccessfulTargetStateReadings consecutive readings,
\* all taken after the request, that show the request's target.
C3_ConsecutiveReadings ==
  stateChangeSuccessful_ => successRun >= minNumberOfSuccessfulTargetStateReadings

\* C5 (as stated): the application thread reads reading_ and writes
\* stagedCommand_ only while it holds mutex_.
C5_PrimaryLock == pcApp \in {"gr_mid", "sc_mid"} => mutexOwner = "app"

\* C6 (as stated): the Reading getReading returns holds the fields of one
\* updateRead: its position and its statusword stem from the same sample.
C6_ConsistentSnapshot ==
  pcApp = "gr_ret" => snapshot.actualPosition = snapshot.statusSample

\* C7: while the caller of setDriveStateViaPdo(.., true) sleeps it does not own
\* mutex_, so the idle cyclic thread can take it; the caller owns mutex_ only
\* at a poll, a step it can always take.
C7_SleepUnlocked ==
  /\ pcApp = "sp_sleep" =>
       /\ mutexOwner /= "app"
       /\ pcCyc = "idle" => CanLock("cyc")
  /\ mutexOwner = "app" => pcApp = "sp_poll" /\ mutexCount = 1

\* The caller sleeps and the cyclic thread, inside updateRead, owns mutex_.
C7_Witness == pcApp = "sp_sleep" /\ pcCyc = "ur_mid" /\ mutexOwner = "cyc"

\* C8: setDriveStateViaPdo(.., true) always returns; a poll that sees
\* stateChangeSuccessful_ returns true; it returns true only with
\* stateChangeSuccessful_ set, and false only once more than
\* driveStateChangeMaxTimeout has elapsed since the request.
C8_WaitReturns ==
  /\ Waiting ~> pcApp = "sp_ret"
  /\ [][pcApp = "sp_poll" /\ stateChangeSuccessful_ /\ pcApp' /= pcApp
          => pcApp' = "sp_ret" /\ appRet']_vars
  /\ [](pcApp = "sp_ret" /\ waitForState /\ appRet => stateChangeSuccessful_)
  /\ [](pcApp = "sp_ret" /\ waitForState /\ ~appRet => TimedOut)

\* The wait ended in a timeout: the call returned false.
C8_Witness == pcApp = "sp_ret" /\ waitForState /\ ~appRet /\ TimedOut

\* ------------------------------------------------------------ claims, cycle by cycle

\* C11: an updateWrite entered while modeOfOperation_ is NA hands no record to
\* the bus, adds exactly one error, the ModeOfOperationError, does not run the
\* engine, and leaves controlword_, the state-change flags, the reading
\* counter and the time point as they were.
C11_ModeNotSet ==
  [][UpdateWrite /\ modeOfOperation_ = "NA" =>
       /\ ~wrote'
       /\ rxPdo' = rxPdo
       /\ lastErrors' = <<"ModeOfOperationError">>
       /\ UNCHANGED <<controlword_, conductStateChange_, hasRead_,
                      stateChangeSuccessful_, targetDriveState_,
                      numberOfSuccessfulTargetStateReadings_, sinceChange,
                      fresh, evaluatedFresh, runLength>>]_vars

\* updateWrite returned early although a request was pending and a reading
\* had been taken.
C11_Witness ==
  /\ modeOfOperation_ = "NA"
  /\ lastErrors = <<"ModeOfOperationError">>
  /\ conductStateChange_
  /\ hasRead_
  /\ ~wrote

\* C12: an updateRead whose reading decodes to Fault makes exactly one mailbox
\* read of the error code; when it succeeds one fault entry is appended and no
\* ErrorReadingError is added, when it fails an ErrorReadingError is added and
\* no fault entry is appended. An updateRead whose reading does not decode to
\* Fault makes no mailbox read, appends no fault entry and adds no
\* ErrorReadingError.
C12_FaultRead ==
  [][UpdateReadEnd =>
       IF reading_'.statusword = "Fault"
       THEN /\ sdoReads' = 1
            /\ \/ lastFaults' = 1 /\ ~InSeq("ErrorReadingError", lastErrors')
               \/ lastFaults' = 0 /\ lastErrors' = Append(lastErrors, "ErrorReadingError")
       ELSE /\ sdoReads' = 0
            /\ lastFaults' = 0
            /\ ~InSeq("ErrorReadingError", lastErrors')]_vars

\* A Fault was decoded and the error-code read failed.
C12_Witness ==
  /\ reading_.statusword = "Fault"
  /\ sdoReads = 1
  /\ lastFaults = 0
  /\ InSeq("ErrorReadingError", lastErrors)

\* C13: an updateWrite that follows one which wrote a record, with no
\* stageCommand step in between and no state change pending, hands the bus the
\* record the bus already holds; no updateWrite changes the staged command.
C13_WriteIdempotent ==
  [][UpdateWrite =>
       /\ stagedCommand_' = stagedCommand_
       /\ steady >= 1 /\ ~conductStateChange_ => wrote' /\ rxPdo' = rxPdo]_vars

\* A converted command was written twice in a row, no state change ever asked.
C13_Witness ==
  /\ steady = 2
  /\ targetDriveState_ = "NA"
  /\ stagedCommand_.targetTorqueRaw /= 0
  /\ rxPdo.targetTorque = stagedCommand_.targetTorqueRaw

\* ------------------------------------------------------------ claims, lookup

\* C14: for a pair without a transition (current state not one of the six,
\* requested state Fault or not one of the six, or requested = current) the
\* lookup records a PdoStateTransitionError and returns the all-false
\* controlword; it never returns without a transition and without the error.
C14_OffTable ==
  tblPc = "ret" =>
    /\ (tblCurrent \notin DriveStates6
          \/ tblRequested \notin DriveStates6 \ {"Fault"}
          \/ tblRequested = tblCurrent)
        => tblResult = setAllFalse /\ lastErrors = <<"PdoStateTransitionError">>
    /\ tblResult \notin Transitions => lastErrors = <<"PdoStateTransitionError">>

\* The lookup was asked for OperationEnabled with the current state undefined.
C14_Witness ==
  /\ tblPc = "ret"
  /\ tblRequested = "OperationEnabled"
  /\ tblCurrent = "NA"
  /\ tblResult = setAllFalse
  /\ lastErrors = <<"PdoStateTransitionError">>

\* C15 (as stated): a call of the lookup changes no state of the object, the
\* error log of reading_ included.
C15_Original == tblPc = "ret" => lastErrors = <<>>

\* C15 (amended): the controlword the lookup returns is the table's entry for
\* (requested, current) whatever was looked up before; the call appends one
\* PdoStateTransitionError to reading_'s error log exactly when it selects no
\* transition, and changes nothing else of the object.
C15_Pure ==
  /\ [](tblPc = "ret" =>
          /\ tblResult = TransitionTable(tblRequested, tblCurrent).controlword
          /\ lastErrors = IF tblResult \in Transitions
                          THEN <<>>
                          ELSE <<"PdoStateTransitionError">>)
  /\ [][TableLookup => UNCHANGED <<cfgVars, cycVars>>]_vars

\* The lookup was asked for the state the drive is in and recorded the error.
C15_Witness ==
  /\ tblPc = "ret"
  /\ tblRequested = "SwitchOnDisabled"
  /\ tblCurrent = "SwitchOnDisabled"
  /\ lastErrors = <<"PdoStateTransitionError">>

\* The transitions selected by applying the lookup of the cyclic path again and
\* again, the state moving to the nominal destination of each one; 0 marks a
\* lookup that selects none.
RECURSIVE IteratedLookup(_, _, _)
IteratedLookup(target, s, steps) ==
  IF s = target
  THEN <<>>
  ELSE LET cw == TransitionTable(target, s).controlword
       IN IF cw \notin Transitions \/ steps = 0
          THEN <<setAllFalse>>
          ELSE <<cw>> \o IteratedLookup(target, TransitionDest(cw), steps - 1)

\* The controlwords setDriveStateViaSdo wrote, in the order of the writes.
WrittenControlwords ==
  LET w == SelectSeq(busLog, LAMBDA e : e.kind = "sendSdoWrite" /\ e.index = "CONTROLWORD")
  IN [i \in 1 .. Len(w) |-> w[i].value]

\* C16: for a target among the five states setDriveStateViaSdo implements and a
\* current state among the six, the controlwords it writes are those of the
\* transitions the lookup getNextStateTransitionControlword(target, s) selects
\* when iterated from s = current through the nominal destinations until
\* s = target; for target = current it writes no controlword.
C16_SameTable ==
  (/\ opName = "setDriveStateViaSdo"
   /\ opArgs[1] \in DriveStates6 \ {"Fault"}
   /\ opArgs[2] \in DriveStates6)
  => LET chain == IteratedLookup(opArgs[1], opArgs[2], Cardinality(DriveStates6))
     IN /\ WrittenControlwords = [i \in 1 .. Len(chain) |-> setStateTransition(chain[i])]
        /\ opArgs[1] = opArgs[2] => ControlwordWrites = {}

\* From Fault to QuickStopActive: five writes, the longest chain.
C16_Witness ==
  /\ opName = "setDriveStateViaSdo"
  /\ opArgs = <<"QuickStopActive", "Fault">>
  /\ WrittenControlwords = <<15, 2, 3, 4, 11>>
  /\ opReturn

\* C17 (as stated): every evaluation of engagePdoStateMachine is preceded, since
\* the request and since the evaluation before it, by an updateRead that
\* decoded a record into reading_.
C17_FreshSample == evaluatedFresh

\* The part of C17 the code keeps: with a supported tx type every evaluation
\* has a newly decoded record.
C17_FreshWhenDecoding ==
  currentTxPdoTypeEnum_ \in {"TxPdoStandard", "TxPdoCST"} => evaluatedFresh

\* C18: the engine assigns controlword_ (and restarts the dwell timer) only in
\* an updateWrite that evaluates a reading whose state differs from the target
\* while more than driveStateChangeMinTimeout has elapsed since the request or
\* the assignment before it, whichever restarted the timer last; the timer is
\* restarted by the assignment.
C18_MinimumDwell ==
  [][UpdateWrite /\ (controlword_' /= controlword_ \/ sinceChange' /= sinceChange)
       => /\ conductStateChange_ /\ hasRead_
          /\ reading_.statusword /= targetDriveState_
          /\ sinceChange > driveStateChangeMinTimeout
          /\ sinceChange' = 0]_vars

\* A waiting request whose clock has advanced and whose dwell timer was
\* restarted since: the engine has assigned a transition.
C18_Witness ==
  /\ Waiting
  /\ conductStateChange_
  /\ sinceStart > 0
  /\ sinceChange = 0
  /\ controlword_ \in Transitions

\* C19: an updateWrite with a mode of operation set and a supported rx type
\* hands the bus one record, encoded after the engine has run: its controlword
\* is the value controlword_ has at the end of the call (the transition the
\* engine selected in this call, when it selected one), its mode is
\* modeOfOperation_, its target is the staged command's raw value, and its
\* layout is that of the negotiated rx type.
C19_EngineBeforeEncode ==
  [][UpdateWrite
       => /\ wrote' = (/\ modeOfOperation_ /= "NA"
                       /\ currentRxPdoTypeEnum_ \in {"RxPdoStandard", "RxPdoCST"})
          /\ wrote' => /\ rxPdo'.valid
                       /\ rxPdo'.controlWord = controlword_'
                       /\ rxPdo'.modeOfOperation = ModeRaw(modeOfOperation_)
                       /\ rxPdo'.targetTorque = stagedCommand_.targetTorqueRaw
                       /\ rxPdo'.layout = currentRxPdoTypeEnum_]_vars

\* The engine has just selected transition 2 on the way to OperationEnabled and
\* the record of that cycle carries it, in the CST layout.
C19_Witness ==
  /\ wrote
  /\ conductStateChange_ /\ ~hasRead_
  /\ targetDriveState_ = "OperationEnabled"
  /\ reading_.statusword = "SwitchOnDisabled"
  /\ sinceChange = 0
  /\ controlword_ = setStateTransition(2)
  /\ rxPdo.controlWord = setStateTransition(2)
  /\ rxPdo.layout = "RxPdoCST"

\* C20 (as stated): with a mode of operation set, a request for one of the
\* five states other than Fault, from any of the six drive states, leads to
\* stateChangeSuccessful_ = true and conductStateChange_ = false.
C20_Original ==
  (conductStateChange_ /\ modeOfOperation_ /= "NA")
    ~> (stateChangeSuccessful_ /\ ~conductStateChange_)

\* C20 (amended): the same, for an object whose negotiated rx and tx PDO types
\* are ones updateWrite and updateRead support.
C20_EngineLive ==
  (/\ conductStateChange_
   /\ modeOfOperation_ /= "NA"
   /\ currentRxPdoTypeEnum_ \in {"RxPdoStandard", "RxPdoCST"}
   /\ currentTxPdoTypeEnum_ \in {"TxPdoStandard", "TxPdoCST"})
    ~> (stateChangeSuccessful_ /\ ~conductStateChange_)

\* QuickStopActive was requested and reached through transition 11.
C20_Witness ==
  /\ stateChangeSuccessful_ /\ ~conductStateChange_
  /\ targetDriveState_ = "QuickStopActive"
  /\ reading_.statusword = "QuickStopActive"
  /\ controlword_ = setStateTransition(11)
  /\ rxPdo.controlWord = setStateTransition(11)

\* ------------------------------------------------------------ claims, configuration order

\* The verify-writes the last operation made on one object, in order.
WritesOn(index) ==
  SelectSeq(busLog, LAMBDA e : e.kind = "sdoVerifyWrite" /\ e.index = index)

\* Count 0, entries 1 .. n in ascending order, count n.
AssignmentOrder(w, n) ==
  /\ Len(w) = n + 2
  /\ w[1].sub = 0 /\ w[1].value = 0
  /\ \A i \in 1 .. n : w[i + 1].sub = i /\ w[i + 1].value /= 0
  /\ w[n + 2].sub = 0 /\ w[n + 2].value = n

\* C21: for each side with a supported type mapPdos writes the assignment
\* count 0, then the entries in ascending sub-index order, then the count of
\* the entries (2 for RxPdoStandard, RxPdoCST and TxPdoCST, 4 for
\* TxPdoStandard); every rx write precedes every tx write.
C21_AssignmentOrder ==
  opName = "mapPdos"
  => /\ opArgs[1] \in {"RxPdoStandard", "RxPdoCST"}
          => AssignmentOrder(WritesOn("RX_PDO_ASSIGNMENT"), 2)
     /\ opArgs[2] \in {"TxPdoStandard", "TxPdoCST"}
          => AssignmentOrder(WritesOn("TX_PDO_ASSIGNMENT"),
                             IF opArgs[2] = "TxPdoStandard" THEN 4 ELSE 2)
     /\ \A i \in Calls("sdoVerifyWrite", "RX_PDO_ASSIGNMENT"),
           j \in Calls("sdoVerifyWrite", "TX_PDO_ASSIGNMENT") : i < j

\* Both sides mapped: four rx writes, then six tx writes.
C21_Witness ==
  /\ opName = "mapPdos"
  /\ opArgs = <<"RxPdoCST", "TxPdoStandard">>
  /\ Len(WritesOn("RX_PDO_ASSIGNMENT")) = 4
  /\ Len(WritesOn("TX_PDO_ASSIGNMENT")) = 6
  /\ opReturn

\* C22 (as stated): in mapPdos a usleep of configRunSdoVerifyTimeout lies
\* between any two consecutive verify-writes.
C22_SettleDelay ==
  opName = "mapPdos"
  => \A i \in 1 .. Len(busLog) - 1 :
       busLog[i].kind = "sdoVerifyWrite"
         => /\ busLog[i + 1].kind = "usleep"
            /\ busLog[i + 1].value = ConfigRunSdoVerifyTimeout

\* The part of C22 the code keeps: every pair of consecutive verify-writes
\* other than entry 2 and the final count of RxPdoCST has the delay between.
C22_SettleDelayButCst ==
  opName = "mapPdos"
  => \A i \in 1 .. Len(busLog) - 1 :
       (busLog[i].kind = "sdoVerifyWrite" /\ busLog[i + 1].kind /= "usleep")
         => /\ opArgs[1] = "RxPdoCST"
            /\ busLog[i].index = "RX_PDO_ASSIGNMENT" /\ busLog[i].sub = 2
            /\ busLog[i + 1].index = "RX_PDO_ASSIGNMENT" /\ busLog[i + 1].sub = 0

\* The positions of busLog of one kind of step of runPreopConfiguration.
StateChangeCalls ==
  Calls("sendSdoRead", "STATUSWORD") \cup Calls("sendSdoWrite", "CONTROLWORD")

AssignmentWrites ==
  Calls("sdoVerifyWrite", "RX_PDO_ASSIGNMENT") \cup Calls("sdoVerifyWrite", "TX_PDO_ASSIGNMENT")

SizeReads == {i \in 1 .. Len(busLog) : busLog[i].kind = "getHardwarePdoSizes"}

\* C23: runPreopConfiguration first commands ReadyToSwitchOn over SDO (the
\* statusword read and the chain for ReadyToSwitchOn), then makes every
\* PDO-assignment write, then the one mode-of-operation verify-write, then
\* re-reads the PDO sizes, and ends with the verify-writes of the rated
\* current, the rated torque (same value) and the maximum current, in that order.
C23_PreopOrder ==
  opName = "runPreopConfiguration"
  => LET n == Len(busLog)
         mode == Calls("sdoVerifyWrite", "MODES_OF_OPERATION")
     IN /\ Cardinality(Calls("sendSdoRead", "STATUSWORD")) = 1
        /\ opArgs[2] \in DriveStates6
             => WrittenControlwords
                  = IteratedLookup("ReadyToSwitchOn", opArgs[2], Cardinality(DriveStates6))
        /\ \A i \in StateChangeCalls, j \in AssignmentWrites : i < j
        /\ Cardinality(mode) = 1
        /\ \A i \in StateChangeCalls \cup AssignmentWrites, j \in mode : i < j
        /\ SizeReads = {n - 3}
        /\ \A j \in mode : j < n - 3
        /\ busLog[n - 2].kind = "sdoVerifyWrite" /\ busLog[n - 2].index = "MOTOR_RATED_CURRENT"
        /\ busLog[n - 1].kind = "sdoVerifyWrite" /\ busLog[n - 1].index = "MOTOR_RATED_TORQUE"
        /\ busLog[n - 1].value = busLog[n - 2].value
        /\ busLog[n].kind = "sdoVerifyWrite" /\ busLog[n].index = "MAX_CURRENT"

\* A run from SwitchOnDisabled that maps both sides: transition 2, then the
\* assignment writes, then the mode.
C23_Witness ==
  /\ opName = "runPreopConfiguration"
  /\ opArgs[2] = "SwitchOnDisabled"
  /\ WrittenControlwords = <<setStateTransition(2)>>
  /\ Calls("sdoVerifyWrite", "RX_PDO_ASSIGNMENT") /= {}
  /\ Calls("sdoVerifyWrite", "TX_PDO_ASSIGNMENT") /= {}
  /\ opReturn

\* C24 (as stated): configureRxPdo(NA) records an RxPdoTypeError and
\* configureTxPdo(NA) a TxPdoTypeError; both return false and leave the
\* negotiated type of their side as it was.
C24_DistinctKinds ==
  /\ (opName = "configureRxPdo" /\ opArgs = <<"NA">>)
       => /\ lastErrors = <<"RxPdoTypeError">>
          /\ ~opReturn
          /\ currentRxPdoTypeEnum_ = preRx
  /\ (opName = "configureTxPdo" /\ opArgs = <<"NA">>)
       => /\ lastErrors = <<"TxPdoTypeError">>
          /\ ~opReturn
          /\ currentTxPdoTypeEnum_ = preTx

\* The part of C24 the code keeps: NA is refused on either side, the call
\* returns false and the negotiated types stay; the error recorded is
\* RxPdoTypeError on both sides.
C24_NaRefused ==
  (opName \in {"configureRxPdo", "configureTxPdo"} /\ opArgs = <<"NA">>)
    => /\ lastErrors = <<"RxPdoTypeError">>
       /\ ~opReturn
       /\ currentRxPdoTypeEnum_ = preRx
       /\ currentTxPdoTypeEnum_ = preTx

\* ------------------------------------------------------------ claims, staging and requests

\* C25 (as stated): a record updateWrite has written since stageCommand last
\* touched stagedCommand_ carries the raw value doUnitConversion gives the
\* staged command, never a value read before the conversion.
C25_ConvertedCommand ==
  (wrote /\ steady >= 1 /\ stagedCommand_ /= NoCommand)
    => rxPdo.targetTorque
         = doUnitConversion(stagedCommand_, configuration_.motorRatedCurrentA).targetTorqueRaw

\* The part of C25 the code keeps: outside a running stageCommand the record
\* carries the converted command.
C25_ConvertedWhenQuiet ==
  (wrote /\ steady >= 1 /\ stagedCommand_ /= NoCommand /\ pcApp /= "sc_mid")
    => rxPdo.targetTorque
         = doUnitConversion(stagedCommand_, configuration_.motorRatedCurrentA).targetTorqueRaw

\* C26: once setDriveStateViaPdo has returned (without waiting, on success or
\* on timeout) its caller does not own mutex_, and mutex_ is free exactly
\* when its count is zero; the call writes stateChangeSuccessful_,
\* conductStateChange_, targetDriveState_, hasRead_ and the time point in one
\* hold of mutex_ taken while the cyclic thread is in neither updateWrite nor
\* updateRead, and writes none of them afterwards.
C26_LockBalance ==
  /\ [](pcApp \in {"sp_ret", "idle"} => mutexOwner /= "app")
  /\ []((mutexOwner = "none") = (mutexCount = 0))
  /\ [][SetDriveStateViaPdo
          => /\ pcCyc = "idle" /\ mutexOwner = "none"
             /\ ~stateChangeSuccessful_' /\ conductStateChange_' /\ ~hasRead_'
             /\ sinceChange' = 0]_vars
  /\ [][SetDriveStateViaPdoPoll \/ SetDriveStateViaPdoWake \/ AppReturn
          => UNCHANGED <<stateChangeSuccessful_, conductStateChange_,
                         targetDriveState_, hasRead_, sinceChange>>]_vars

\* The call has returned false on timeout and mutex_ is free.
C26_Witness ==
  /\ pcApp = "sp_ret" /\ waitForState /\ ~appRet
  /\ mutexOwner = "none" /\ mutexCount = 0

\* C27: a setDriveStateViaPdo that returns false on timeout leaves
\* conductStateChange_ true and targetDriveState_ as requested; only the
\* engine's success branch, in an updateWrite that reads the target state,
\* clears conductStateChange_, so after the return the request is either still
\* pending or has succeeded.
C27_TimeoutKeepsRequest ==
  /\ [][SetDriveStateViaPdoPoll /\ pcApp' = "sp_ret" /\ ~appRet'
          => /\ conductStateChange_' /\ ~stateChangeSuccessful_'
             /\ targetDriveState_' = targetDriveState_]_vars
  /\ [][conductStateChange_ /\ ~conductStateChange_'
          => /\ UpdateWrite
             /\ stateChangeSuccessful_'
             /\ reading_.statusword = targetDriveState_]_vars
  /\ [](pcApp = "sp_ret" /\ waitForState /\ ~appRet
          => conductStateChange_ \/ stateChangeSuccessful_)

\* The call returned false on timeout, and the engine has since brought the
\* drive to OperationEnabled and marked the request successful.
C27_Witness ==
  /\ pcApp = "sp_ret" /\ waitForState /\ ~appRet
  /\ targetDriveState_ = "OperationEnabled"
  /\ reading_.statusword = "OperationEnabled"
  /\ stateChangeSuccessful_ /\ ~conductStateChange_

\* C28: an updateWrite that runs the engine on a reading decoding to none of
\* the six states, the dwell time elapsed, sets controlword_ to the all-false
\* pattern whatever it held, records a PdoStateTransitionError, restarts the
\* dwell timer, leaves the request pending, and the record of that cycle
\* carries the all-false controlword.
C28_UndefinedReading ==
  [][(/\ UpdateWrite
      /\ modeOfOperation_ /= "NA"
      /\ conductStateChange_ /\ hasRead_
      /\ reading_.statusword \notin DriveStates6
      /\ sinceChange > driveStateChangeMinTimeout)
       => /\ controlword_' = setAllFalse
          /\ InSeq("PdoStateTransitionError", lastErrors')
          /\ sinceChange' = 0
          /\ conductStateChange_' /\ ~stateChangeSuccessful_'
          /\ targetDriveState_' = targetDriveState_
          /\ wrote' /\ rxPdo'.controlWord = setAllFalse]_vars

\* The drive went undefined on the way to OperationEnabled: the record that
\* carried a transition now carries the all-false controlword.
C28_Witness ==
  /\ drive = "NA"
  /\ reading_.statusword = "NA"
  /\ conductStateChange_
  /\ targetDriveState_ = "OperationEnabled"
  /\ sinceChange = 0
  /\ lastErrors = <<"PdoStateTransitionError">>
  /\ controlword_ = setAllFalse
  /\ wrote /\ rxPdo.controlWord = setAllFalse

\* C29: stageCommand sets modeOfOperation_ to the command's mode exactly when
\* allowModeChange_ holds; allowModeChange_ holds exactly when the loaded
\* configuration uses several modes of operation and its types are
\* RxPdoStandard and TxPdoStandard; otherwise modeOfOperation_ stays the
\* configured mode. Once a command of mode NA has been staged with the change
\* allowed, an updateWrite writes no record.
C29_ModeChange ==
  /\ [][StageCommandEnd
          => modeOfOperation_' = IF allowModeChange_
                                 THEN stagedCommand_.modeOfOperation
                                 ELSE modeOfOperation_]_vars
  /\ [](allowModeChange_ = (/\ configuration_.useMultipleModeOfOperations
                            /\ configuration_.rxPdoTypeEnum = "RxPdoStandard"
                            /\ configuration_.txPdoTypeEnum = "TxPdoStandard"))
  /\ [](~allowModeChange_ => modeOfOperation_ = configuration_.modeOfOperationEnum)
  /\ [][(/\ UpdateWrite
          /\ allowModeChange_
          /\ pcApp /= "sc_mid"
          /\ stagedCommand_ /= NoCommand
          /\ stagedCommand_.modeOfOperation = "NA")
           => ~wrote' /\ rxPdo' = rxPdo
              /\ lastErrors' = <<"ModeOfOperationError">>]_vars

\* A command of mode NA was staged on an object configured for cyclic
\* synchronous torque with the change allowed: the write was refused.
C29_Witness ==
  /\ allowModeChange_
  /\ configuration_.modeOfOperationEnum = "CyclicSynchronousTorqueMode"
  /\ pcApp = "idle"
  /\ stagedCommand_ /= NoCommand
  /\ stagedCommand_.modeOfOperation = "NA"
  /\ modeOfOperation_ = "NA"
  /\ ~wrote
  /\ rxPdo.valid
  /\ lastErrors = <<"ModeOfOperationError">>

\* A side of the last mapPdos succeeded: its type is a supported one and each
\* of its verify-writes succeeded.
SideSucceeded(index, type) ==
  /\ type \in {"RxPdoStandard", "RxPdoCST", "TxPdoStandard", "TxPdoCST"}
  /\ \A i \in Calls("sdoVerifyWrite", index) : busLog[i].ok

\* C30: mapPdos sets the negotiated type of a side to the requested type when
\* every verify-write of that side succeeded and leaves it as it was when one
\* failed (or the type is not a supported one, for which no write is made);
\* the writes of a side are all made whatever happened on the other side;
\* mapPdos returns true exactly when both sides succeeded.
C30_TypeUpdate ==
  opName = "mapPdos"
  => LET rxOk == SideSucceeded("RX_PDO_ASSIGNMENT", opArgs[1])
         txOk == SideSucceeded("TX_PDO_ASSIGNMENT", opArgs[2])
     IN /\ currentRxPdoTypeEnum_ = IF rxOk THEN opArgs[1] ELSE preRx
        /\ currentTxPdoTypeEnum_ = IF txOk THEN opArgs[2] ELSE preTx
        /\ opArgs[1] \in {"RxPdoStandard", "RxPdoCST"}
             => Len(WritesOn("RX_PDO_ASSIGNMENT")) = 4
        /\ opArgs[2] \in {"TxPdoStandard", "TxPdoCST"}
             => Len(WritesOn("TX_PDO_ASSIGNMENT"))
                  = IF opArgs[2] = "TxPdoStandard" THEN 6 ELSE 4
        /\ opReturn = (rxOk /\ txOk)

\* An rx write failed: the rx type stays, the tx side is written and updated.
C30_Witness ==
  /\ opName = "mapPdos"
  /\ opArgs = <<"RxPdoCST", "TxPdoCST">>
  /\ preRx = "RxPdoStandard" /\ preTx = "TxPdoStandard"
  /\ \E i \in Calls("sdoVerifyWrite", "RX_PDO_ASSIGNMENT") : ~busLog[i].ok
  /\ currentRxPdoTypeEnum_ = "RxPdoStandard"
  /\ currentTxPdoTypeEnum_ = "TxPdoCST"
  /\ ~opReturn

====
